---- MODULE Spec2Model ----
(***************************************************************************)
(* Model of QuickCapture's CameraThread (src/quickcapture.py): the         *)
(* dispatcher loop thread (_loop, _connect, _drain_queue), the submitters  *)
(* (run) and the shutdown caller (stop), over an unreliable device, and    *)
(* the capture, autofocus and flash jobs run by the loop thread, and the  *)
(* flash toggle of QuickCaptureApp that submits from its own threads.      *)
(***************************************************************************)
EXTENDS Integers, Sequences, FiniteSets, TLC

\* ---------------------------------------------------------------- bounds
MaxJobs    == 3   \* jobs submitted through run() in one behaviour
MaxUnplugs == 1   \* times the device drops off the bus in one behaviour
MaxStops   == 2   \* stop() calls (window close, then atexit/SIGTERM)
MaxLiveJobs == 1  \* jobs submitted in one behaviour of LiveSpec
MaxCapJobs == 2   \* capture jobs submitted in one behaviour of CapSpec
MaxAfJobs  == 2   \* autofocus jobs submitted in one behaviour of AfSpec
MaxToggles == 2   \* flash toggles by the user in one behaviour of FlashSpec

Jobs    == 1..MaxJobs
Handles == 1..(MaxUnplugs + 1)
NoCam   == 0

VARIABLES
  pc,          \* position of the loop thread in _loop/_connect
  running,     \* self._running
  cam_ref,     \* self._cam_ref
  cam,         \* _loop's local cam (NoCam is None)
  q,           \* self._q, the job queue (job ids, head first)
  cur,         \* the job popped by the main loop's drain (fn, done)
  brk,         \* TRUE when the except clause of the drain executes break
  connectable, \* the device is on the bus and answers
  unplugs,     \* number of times the device has dropped so far
  hstate,      \* per handle: "none", "open" (init() done), "released" (exit() called)
  exits,       \* per handle: number of exit() calls
  disc,        \* per handle: number of on_disconnect() calls made for it
  nextJob,     \* id of the next job run() will enqueue
  jstate,      \* per job: "none","queued","running","ran","aborted","discarded"
  doneCount,   \* per job: number of done.set() calls
  execLog,     \* jobs in the order fn(cam) was entered
  doneLog,     \* jobs in the order their event was first set
  liveAt,      \* per job: the handle of the main loop it was submitted to, or NoCam
  batch,       \* jobs queued when the current main-loop iteration began
  atFault,     \* jobs queued when the last disconnect-class error was raised
  cause,       \* why the main loop was left: "none","job","preview","stop"
  stopPc,      \* position of the caller inside stop()
  stopCam,     \* stop()'s local cam
  stopCalls,   \* stop() calls begun
  stopReturns, \* stop() calls returned
  sawEmpty,    \* the drain of this iteration ended by seeing the queue empty
  reported,    \* _on_status calls made by the except clauses for the current job
  capPc,       \* position inside capture_job ("idle": not entered or left)
  capI,        \* capture_job: eosremoterelease writes made so far
  capT,        \* capture_job: milliseconds of wall clock since fn(cam) was entered
  capDeadline, \* capture_job's local deadline, on the same clock
  capLog,      \* capture_job: the control writes and sleeps made, in order
  capFiles,    \* capture_job: self._on_file calls
  capOther,    \* capture_job: an event other than FILE_ADDED was received
  capOut,      \* how capture_job ended: "none","ok","timeout","error","io"
  capTimedOut, \* the jobs that ended by the timeout RuntimeError
  cb,          \* the callback the loop thread's latest step invoked, or "none"
  evt,         \* how the latest event step (lines 311-324) went, until line 280
  faulted,     \* handles on which a job or the preview raised GP_ERROR_IO
  raised,      \* class of the error fn(cam) raised for the current job
  afPc,        \* position inside af_job ("idle": not entered or left)
  afLog,       \* the autofocusdrive writes made so far: <<job, value>>
  afOk,        \* the jobs whose af_job returned normally
  st,          \* the status call made by the loop thread's latest step
  base,        \* per handle the thread holds: baseline controls applied on it
  failSub,     \* queued jobs submitted while a failed attempt was handled
  flash_on,    \* QuickCaptureApp.flash_on (what the UI shows)
  flashThr,    \* per toggle: its thread's want_on ("on"/"off"), "put" after run()
  flashWant,   \* per job: the want_on of the flash_job it carries
  flashDev,    \* the last value written to autoexposuremode
  flashOk      \* the jobs whose flash_job returned normally

vars == <<pc, running, cam_ref, cam, q, cur, brk, connectable, unplugs,
          hstate, exits, disc, nextJob, jstate, doneCount, execLog, doneLog,
          liveAt, batch, atFault, cause, stopPc, stopCam, stopCalls,
          stopReturns, sawEmpty, reported, capPc, capI, capT, capDeadline,
          capLog, capFiles, capOther, capOut, capTimedOut, cb, evt, faulted,
          raised, afPc, afLog, afOk, st, base, failSub, flash_on, flashThr,
          flashWant, flashDev, flashOk>>

loopVars  == <<pc, cam, cur, brk, batch, atFault, cause, sawEmpty, reported>>
jobVars   == <<q, jstate, doneCount, execLog, doneLog>>
stopVars  == <<stopPc, stopCam, stopCalls, stopReturns>>
envVars   == <<connectable, unplugs>>
obsVars   == <<cb, st, evt, faulted, raised>>
afVars    == <<afPc, afLog, afOk>>
acqVars   == <<base, failSub>>
flashVars == <<flash_on, flashThr, flashWant, flashDev, flashOk>>
capVars   == <<capPc, capI, capT, capDeadline, capLog, capFiles, capOther,
               capOut, capTimedOut>>

\* ------------------------------------------------------------- helpers
Range(s) == {s[i] : i \in 1..Len(s)}

AcqPcs  == {"acq", "connect", "init", "baseline", "viewfinder", "set_ref",
            "acq_fail", "backoff"}
MainPcs == {"main", "drain", "exec", "hung", "set_io", "finally",
            "preview", "event"}

\* done.set(): the event is set (again); the first set is logged
SetDone(dc, j) == [dc EXCEPT ![j] = @ + 1]
LogDone(dl, dc, j) == IF dc[j] = 0 THEN Append(dl, j) ELSE dl

\* queue.Queue.get(): FIFO, the oldest entry
QueueGetLifo(s) == <<s[Len(s)], SubSeq(s, 1, Len(s) - 1)>>
QueueGet(s) == <<Head(s), Tail(s)>>

\* cam.exit()
ExitHandle(hs, h) == [hs EXCEPT ![h] = "released"]

Opened == {h \in Handles : hstate[h] # "none"}
OpenNow == {h \in Handles : hstate[h] = "open"}

\* self._on_status is QuickCaptureApp._set_status(msg, persist=False): a
\* call with one argument takes the default of line 552
OnStatus2(msg, persist) == [msg |-> msg, persist |-> persist]
OnStatus1(msg) == OnStatus2(msg, FALSE)

\* no status call
NoStatus == [msg |-> "none", persist |-> FALSE]

\* line 243
StConnecting == OnStatus2("Connecting...", TRUE)
\* line 261
StReady == OnStatus1("Ready")
\* line 273
StNoCamera == OnStatus2("No camera -- waiting...", TRUE)
\* lines 290 and 292: the text of the error
StJobError == OnStatus1("error")

\* the status call of a step whose callback is c
Reported(c, s) == IF c = "status" THEN s ELSE NoStatus

\* ---------------------------------------------------------------- Init
Init ==
  /\ pc = "outer"
  /\ running = TRUE
  /\ cam_ref = NoCam
  /\ cam = NoCam
  /\ q = <<>>
  /\ cur = 0
  /\ brk = FALSE
  /\ connectable \in BOOLEAN
  /\ unplugs = 0
  /\ hstate = [h \in Handles |-> "none"]
  /\ exits = [h \in Handles |-> 0]
  /\ disc = [h \in Handles |-> 0]
  /\ nextJob = 1
  /\ jstate = [j \in Jobs |-> "none"]
  /\ doneCount = [j \in Jobs |-> 0]
  /\ execLog = <<>>
  /\ doneLog = <<>>
  /\ liveAt = [j \in Jobs |-> NoCam]
  /\ batch = {}
  /\ atFault = {}
  /\ cause = "none"
  /\ stopPc = "idle"
  /\ stopCam = NoCam
  /\ stopCalls = 0
  /\ stopReturns = 0
  /\ sawEmpty = FALSE
  /\ reported = 0
  /\ capPc = "idle"
  /\ capI = 0
  /\ capT = 0
  /\ capDeadline = 0
  /\ capLog = <<>>
  /\ capFiles = 0
  /\ capOther = FALSE
  /\ capOut = "none"
  /\ capTimedOut = {}
  /\ cb = "none"
  /\ evt = "none"
  /\ faulted = {}
  /\ raised = "none"
  /\ afPc = "idle"
  /\ afLog = <<>>
  /\ afOk = {}
  /\ st = NoStatus
  /\ base = [h \in Handles |-> 0]
  /\ failSub = {}
  /\ flash_on = FALSE
  /\ flashThr = [n \in 1..MaxToggles |-> "none"]
  /\ flashWant = [j \in Jobs |-> "none"]
  /\ flashDev = "unknown"
  /\ flashOk = {}

\* ------------------------------------------------------- the submitters
\* run(fn): done = Event(); self._q.put((fn, done))
Submit ==
  /\ nextJob <= MaxJobs
  /\ q' = Append(q, nextJob)
  /\ jstate' = [jstate EXCEPT ![nextJob] = "queued"]
  /\ liveAt' = [liveAt EXCEPT ![nextJob] = IF pc \in MainPcs THEN cam ELSE NoCam]
  /\ nextJob' = nextJob + 1
  /\ failSub' = IF pc \in {"acq_fail", "backoff"}
                  THEN failSub \cup {nextJob} ELSE failSub
  /\ UNCHANGED <<flashVars, obsVars, afVars, base,
                 capVars,
                 loopVars, running, cam_ref, envVars, hstate, exits, disc,
                 doneCount, execLog, doneLog, stopVars>>

\* ------------------------------------------------------ the environment
Unplug ==
  /\ connectable
  /\ unplugs < MaxUnplugs
  /\ connectable' = FALSE
  /\ unplugs' = unplugs + 1
  /\ UNCHANGED <<flashVars, obsVars, afVars, acqVars,
                 capVars,
                 loopVars, running, cam_ref, jobVars, hstate, exits, disc,
                 nextJob, liveAt, stopVars>>

Replug ==
  /\ ~connectable
  /\ connectable' = TRUE
  /\ UNCHANGED <<flashVars, obsVars, afVars, acqVars,
                 capVars,
                 loopVars, running, cam_ref, jobVars, unplugs, hstate, exits,
                 disc, nextJob, liveAt, stopVars>>

\* ------------------------------------------- the loop thread: acquisition
\* line 267: while self._running: cam = None
LoopOuter ==
  /\ pc = "outer"
  /\ IF running
       THEN pc' = "acq" /\ cam' = NoCam
       ELSE pc' = "terminated" /\ cam' = cam
  /\ cb' = "none"
  /\ st' = NoStatus
  /\ UNCHANGED <<flashVars, evt, faulted, raised, afVars, acqVars,
                 sawEmpty, reported, capVars,
                 cur, brk, batch, atFault, cause, running, cam_ref, jobVars,
                 envVars, hstate, exits, disc, nextJob, liveAt, stopVars>>

\* line 269: while self._running and cam is None: (cam is None here)
LoopAcqCheckNoFlag ==
  /\ pc = "acq"
  /\ pc' = "connect"
  /\ cb' = "none"
  /\ st' = NoStatus
  /\ UNCHANGED <<flashVars, evt, faulted, raised, afVars, acqVars,
                 sawEmpty, reported, capVars,
                 cam, cur, brk, batch, atFault, cause, running, cam_ref,
                 jobVars, envVars, hstate, exits, disc, nextJob, liveAt,
                 stopVars>>

LoopAcqCheck ==
  /\ pc = "acq"
  /\ pc' = IF running THEN "connect" ELSE "post_acq"
  /\ cb' = "none"
  /\ st' = NoStatus
  /\ UNCHANGED <<flashVars, evt, faulted, raised, afVars, acqVars,
                 sawEmpty, reported, capVars,
                 cam, cur, brk, batch, atFault, cause, running, cam_ref,
                 jobVars, envVars, hstate, exits, disc, nextJob, liveAt,
                 stopVars>>

\* lines 243-246: _connect: status "Connecting...", killall, sleep(1.5)
ConnectBegin ==
  /\ pc = "connect"
  /\ pc' = "init"
  /\ cb' = "status"
  /\ st' = StConnecting
  /\ UNCHANGED <<flashVars, evt, faulted, raised, afVars, acqVars,
                 sawEmpty, reported, capVars,
                 cam, cur, brk, batch, atFault, cause, running, cam_ref,
                 jobVars, envVars, hstate, exits, disc, nextJob, liveAt,
                 stopVars>>

\* lines 249-250: cam = gp.Camera(); cam.init(); an exception returns None
ConnectInit ==
  /\ pc = "init"
  /\ IF connectable
       THEN LET h == Cardinality(Opened) + 1 IN
            /\ hstate' = [hstate EXCEPT ![h] = "open"]
            /\ cam' = h
            /\ pc' = "baseline"
       ELSE /\ pc' = "acq_fail"
            /\ UNCHANGED <<hstate, cam>>
  /\ cb' = "none"
  /\ st' = NoStatus
  /\ UNCHANGED <<flashVars, evt, faulted, raised, afVars, acqVars,
                 sawEmpty, reported, capVars,
                 cur, brk, batch, atFault, cause, running, cam_ref, jobVars,
                 envVars, exits, disc, nextJob, liveAt, stopVars>>

\* a _connect that goes on when the viewfinder control cannot be written
ConnectViewfinderUnchecked ==
  /\ pc = "viewfinder"
  /\ pc' = "set_ref"
  /\ base' = IF connectable THEN [base EXCEPT ![cam] = @ + 1] ELSE base
  /\ cb' = "none"
  /\ st' = NoStatus
  /\ UNCHANGED <<flashVars, evt, faulted, raised, afVars, failSub,
                 sawEmpty, reported, capVars,
                 cam, cur, brk, batch, atFault, cause, running, cam_ref, jobVars,
                 envVars, hstate, exits, disc, nextJob, liveAt, stopVars>>

\* lines 252-254: the first baseline control (imageformat) is written; an
\* exception returns None and the initialised camera object is dropped
\* without exit()
ConnectBaseline ==
  /\ pc = "baseline"
  /\ IF connectable
       THEN pc' = "viewfinder" /\ cam' = cam
              /\ base' = [base EXCEPT ![cam] = @ + 1]
       ELSE pc' = "acq_fail" /\ cam' = NoCam
              /\ base' = [base EXCEPT ![cam] = 0]
  /\ cb' = "none"
  /\ st' = NoStatus
  /\ UNCHANGED <<flashVars, evt, faulted, raised, afVars, failSub,
                 sawEmpty, reported, capVars,
                 cur, brk, batch, atFault, cause, running, cam_ref, jobVars,
                 envVars, hstate, exits, disc, nextJob, liveAt, stopVars>>

\* lines 256-258: the second baseline control (viewfinder = 1) is written;
\* an exception returns None, the camera object is dropped without exit()
ConnectViewfinder ==
  /\ pc = "viewfinder"
  /\ IF connectable
       THEN pc' = "set_ref" /\ cam' = cam
              /\ base' = [base EXCEPT ![cam] = @ + 1]
       ELSE pc' = "acq_fail" /\ cam' = NoCam
              /\ base' = [base EXCEPT ![cam] = 0]
  /\ cb' = "none"
  /\ st' = NoStatus
  /\ UNCHANGED <<flashVars, evt, faulted, raised, afVars, failSub,
                 sawEmpty, reported, capVars,
                 cur, brk, batch, atFault, cause, running, cam_ref, jobVars,
                 envVars, hstate, exits, disc, nextJob, liveAt, stopVars>>

\* a _connect that reports "Ready" as a persistent status
ConnectSetRefPersistent ==
  /\ pc = "set_ref"
  /\ cam_ref' = cam
  /\ pc' = "post_acq"
  /\ cb' = "status"
  /\ st' = OnStatus2("Ready", TRUE)
  /\ UNCHANGED <<flashVars, evt, faulted, raised, afVars, acqVars,
                 sawEmpty, reported, capVars,
                 cam, cur, brk, batch, atFault, cause, running, jobVars,
                 envVars, hstate, exits, disc, nextJob, liveAt, stopVars>>

\* lines 260-262: self._cam_ref = cam; status "Ready"; return cam;
\* line 269 then leaves the inner while because cam is not None
ConnectSetRef ==
  /\ pc = "set_ref"
  /\ cam_ref' = cam
  /\ pc' = "post_acq"
  /\ cb' = "status"
  /\ st' = StReady
  /\ UNCHANGED <<flashVars, evt, faulted, raised, afVars, acqVars,
                 sawEmpty, reported, capVars,
                 cam, cur, brk, batch, atFault, cause, running, jobVars,
                 envVars, hstate, exits, disc, nextJob, liveAt, stopVars>>

\* an acquisition loop that stops retrying after a failed attempt
LoopAcqFailGiveUp ==
  /\ pc = "acq_fail"
  /\ IF q # <<>>
       THEN LET g == QueueGet(q) IN
            /\ q' = g[2]
            /\ jstate' = [jstate EXCEPT ![g[1]] = "discarded"]
            /\ doneCount' = SetDone(doneCount, g[1])
            /\ doneLog' = LogDone(doneLog, doneCount, g[1])
            /\ pc' = pc
       ELSE /\ pc' = "terminated"
            /\ UNCHANGED <<q, jstate, doneCount, doneLog>>
  /\ cb' = IF q # <<>> THEN "none" ELSE "status"
  /\ st' = Reported(cb', StNoCamera)
  /\ failSub' = IF q # <<>> THEN failSub \ {QueueGet(q)[1]} ELSE failSub
  /\ UNCHANGED <<flashVars, evt, faulted, raised, afVars, base,
                 sawEmpty, reported, capVars,
                 cam, cur, brk, batch, atFault, cause, running, cam_ref,
                 execLog, envVars, hstate, exits, disc, nextJob, liveAt,
                 stopVars>>

\* a failed attempt that leaves the queue as it is
LoopAcqFailKeepsQueue ==
  /\ pc = "acq_fail"
  /\ pc' = "backoff"
  /\ cb' = "status"
  /\ st' = StNoCamera
  /\ UNCHANGED <<flashVars, evt, faulted, raised, afVars, acqVars,
                 sawEmpty, reported, capVars,
                 cam, cur, brk, batch, atFault, cause, running, cam_ref,
                 jobVars, envVars, hstate, exits, disc, nextJob, liveAt,
                 stopVars>>

\* lines 271-273 with _drain_queue (235-239): discard one job per step;
\* once the queue is seen empty: status "No camera -- waiting..."
LoopAcqFail ==
  /\ pc = "acq_fail"
  /\ IF q # <<>>
       THEN LET g == QueueGet(q) IN
            /\ q' = g[2]
            /\ jstate' = [jstate EXCEPT ![g[1]] = "discarded"]
            /\ doneCount' = SetDone(doneCount, g[1])
            /\ doneLog' = LogDone(doneLog, doneCount, g[1])
            /\ pc' = pc
       ELSE /\ pc' = "backoff"
            /\ UNCHANGED <<q, jstate, doneCount, doneLog>>
  /\ cb' = IF q # <<>> THEN "none" ELSE "status"
  /\ st' = Reported(cb', StNoCamera)
  /\ failSub' = IF q # <<>> THEN failSub \ {QueueGet(q)[1]} ELSE failSub
  /\ UNCHANGED <<flashVars, evt, faulted, raised, afVars, base,
                 sawEmpty, reported, capVars,
                 cam, cur, brk, batch, atFault, cause, running, cam_ref,
                 execLog, envVars, hstate, exits, disc, nextJob, liveAt,
                 stopVars>>

\* line 274: time.sleep(2), then back to the test of line 269
LoopBackoff ==
  /\ pc = "backoff"
  /\ pc' = "acq"
  /\ cb' = "none"
  /\ st' = NoStatus
  /\ UNCHANGED <<flashVars, evt, faulted, raised, afVars, acqVars,
                 sawEmpty, reported, capVars,
                 cam, cur, brk, batch, atFault, cause, running, cam_ref,
                 jobVars, envVars, hstate, exits, disc, nextJob, liveAt,
                 stopVars>>

\* lines 276-277: if not self._running: return
LoopPostAcq ==
  /\ pc = "post_acq"
  /\ pc' = IF running THEN "main" ELSE "terminated"
  /\ cb' = "none"
  /\ st' = NoStatus
  /\ UNCHANGED <<flashVars, evt, faulted, raised, afVars, acqVars,
                 sawEmpty, reported, capVars,
                 cam, cur, brk, batch, atFault, cause, running, cam_ref,
                 jobVars, envVars, hstate, exits, disc, nextJob, liveAt,
                 stopVars>>

\* ---------------------------------------------- the loop thread: main loop
\* a main loop that calls _drain_queue at the top of every iteration
LoopMainDrainFirst ==
  /\ pc = "main"
  /\ IF running
       THEN pc' = "drain" /\ batch' = {} /\ cause' = cause
       ELSE pc' = "cleanup" /\ batch' = batch /\ cause' = "stop"
  /\ q' = <<>>
  /\ jstate' = [j \in Jobs |-> IF j \in Range(q) THEN "discarded" ELSE jstate[j]]
  /\ doneCount' = [j \in Jobs |-> IF j \in Range(q) THEN doneCount[j] + 1 ELSE doneCount[j]]
  /\ doneLog' = doneLog \o q
  /\ cb' = "none"
  /\ st' = NoStatus
  /\ evt' = "none"
  /\ failSub' = failSub \ Range(q)
  /\ UNCHANGED <<flashVars, faulted, raised, afVars, base,
                 sawEmpty, reported, capVars,
                 cam, cur, brk, atFault, running, cam_ref, execLog, envVars,
                 hstate, exits, disc, nextJob, liveAt, stopVars>>

\* a main loop that captures the preview before it drains the queue
LoopMainPreviewFirst ==
  /\ pc = "main"
  /\ IF running
       THEN pc' = "preview" /\ batch' = Range(q) /\ cause' = cause
       ELSE pc' = "cleanup" /\ batch' = batch /\ cause' = "stop"
  /\ cb' = "none"
  /\ st' = NoStatus
  /\ evt' = "none"
  /\ UNCHANGED <<flashVars, faulted, raised, afVars, acqVars,
                 sawEmpty, reported, capVars,
                 cam, cur, brk, atFault, running, cam_ref, jobVars, envVars,
                 hstate, exits, disc, nextJob, liveAt, stopVars>>

\* line 280: while self._running:
LoopMain ==
  /\ pc = "main"
  /\ IF running
       THEN pc' = "drain" /\ batch' = Range(q) /\ cause' = cause
       ELSE pc' = "cleanup" /\ batch' = batch /\ cause' = "stop"
  /\ cb' = "none"
  /\ st' = NoStatus
  /\ evt' = "none"
  /\ UNCHANGED <<flashVars, faulted, raised, afVars, acqVars,
                 sawEmpty, reported, capVars,
                 cam, cur, brk, atFault, running, cam_ref, jobVars, envVars,
                 hstate, exits, disc, nextJob, liveAt, stopVars>>

\* lines 282-283: while not self._q.empty(): fn, done = self._q.get();
\* the else clause (queue seen empty) goes on to the preview
LoopDrainKeepQueued ==
  /\ pc = "drain"
  /\ IF q # <<>>
       THEN /\ cur' = QueueGet(q)[1]
            /\ q' = q
            /\ jstate' = [jstate EXCEPT ![QueueGet(q)[1]] = "running"]
            /\ execLog' = Append(execLog, QueueGet(q)[1])
            /\ pc' = "exec"
            /\ sawEmpty' = FALSE
       ELSE /\ pc' = "preview"
            /\ sawEmpty' = TRUE
            /\ UNCHANGED <<cur, q, jstate, execLog>>
  /\ cb' = "none"
  /\ st' = NoStatus
  /\ UNCHANGED <<flashVars, evt, faulted, raised, afVars, acqVars,
                 reported, capVars,
                 cam, brk, batch, atFault, cause, running, cam_ref, doneCount,
                 doneLog, envVars, hstate, exits, disc, nextJob, liveAt,
                 stopVars>>

LoopDrain ==
  /\ pc = "drain"
  /\ IF q # <<>>
       THEN /\ cur' = QueueGet(q)[1]
            /\ q' = QueueGet(q)[2]
            /\ jstate' = [jstate EXCEPT ![QueueGet(q)[1]] = "running"]
            /\ execLog' = Append(execLog, QueueGet(q)[1])
            /\ pc' = "exec"
            /\ sawEmpty' = FALSE
       ELSE /\ pc' = "preview"
            /\ sawEmpty' = TRUE
            /\ UNCHANGED <<cur, q, jstate, execLog>>
  /\ cb' = "none"
  /\ st' = NoStatus
  /\ failSub' = IF q # <<>> THEN failSub \ {QueueGet(q)[1]} ELSE failSub
  /\ UNCHANGED <<flashVars, evt, faulted, raised, afVars, base,
                 reported, capVars,
                 cam, brk, batch, atFault, cause, running, cam_ref, doneCount,
                 doneLog, envVars, hstate, exits, disc, nextJob, liveAt,
                 stopVars>>

\* a disconnect-class error (GPhoto2Error, GP_ERROR_IO) needs a lost
\* transport: the device is off the bus or the handle has been exited
CanRaiseIO == ~connectable \/ hstate[cam] = "released"

\* how fn(cam) may end: "ok", "transient" (any error that is not
\* disconnect-class), "io" (disconnect-class), "hang" (blocks in a call)
JobOutcomes == {"ok", "transient", "hang"} \cup (IF CanRaiseIO THEN {"io"} ELSE {})

\* an except clause that takes every error for a disconnect
AfterJobAllIO(outcome) ==
  CASE outcome = "io"        -> "set_io"
    [] outcome = "transient" -> "set_io"
    [] outcome = "hang"      -> "hung"
    [] OTHER                 -> "finally"

\* where line 285 continues: except clause at 286-289 (io: first done.set()
\* and break), 290/292 (status message), finally at 294
AfterJob(outcome) ==
  CASE outcome = "io"   -> "set_io"
    [] outcome = "hang" -> "hung"
    [] OTHER            -> "finally"

\* line 285: fn(cam)
LoopExec ==
  /\ pc = "exec"
  /\ \E outcome \in JobOutcomes :
       /\ pc' = AfterJob(outcome)
       /\ jstate' = [jstate EXCEPT ![cur] =
                       CASE outcome = "io"   -> "aborted"
                         [] outcome = "hang" -> "running"
                         [] OTHER            -> "ran"]
       /\ atFault' = IF outcome = "io" THEN Range(q) ELSE atFault
       /\ reported' = IF outcome = "transient" THEN 1 ELSE 0
       /\ cb' = IF outcome = "transient" THEN "status" ELSE "none"
       /\ st' = Reported(cb', StJobError)
       /\ raised' = IF outcome \in {"transient", "io"} THEN outcome ELSE "none"
       /\ faulted' = IF outcome = "io" THEN faulted \cup {cam} ELSE faulted
  /\ UNCHANGED <<flashVars, evt, afVars, acqVars,
                 sawEmpty, capVars,
                 cam, cur, brk, batch, cause, running, cam_ref, q, doneCount,
                 execLog, doneLog, envVars, hstate, exits, disc, nextJob,
                 liveAt, stopVars>>

\* a call blocked inside the device library fails once the handle it is
\* blocked on has been exited from the other thread (stop's escape hatch)
LoopUnblock ==
  /\ pc = "hung"
  /\ hstate[cam] = "released"
  /\ \E outcome \in {"transient", "io"} :
       /\ pc' = AfterJob(outcome)
       /\ jstate' = [jstate EXCEPT ![cur] =
                       IF outcome = "io" THEN "aborted" ELSE "ran"]
       /\ atFault' = IF outcome = "io" THEN Range(q) ELSE atFault
       /\ reported' = IF outcome = "transient" THEN 1 ELSE 0
       /\ cb' = IF outcome = "transient" THEN "status" ELSE "none"
       /\ st' = Reported(cb', StJobError)
       /\ raised' = IF outcome \in {"transient", "io"} THEN outcome ELSE "none"
       /\ faulted' = IF outcome = "io" THEN faulted \cup {cam} ELSE faulted
  /\ UNCHANGED <<flashVars, evt, afVars, acqVars,
                 sawEmpty, capVars,
                 cam, cur, brk, batch, cause, running, cam_ref, q, doneCount,
                 execLog, doneLog, envVars, hstate, exits, disc, nextJob,
                 liveAt, stopVars>>

\* a disconnect clause that also reports the error as a status message
LoopSetIOReported ==
  /\ pc = "set_io"
  /\ doneCount' = SetDone(doneCount, cur)
  /\ doneLog' = LogDone(doneLog, doneCount, cur)
  /\ brk' = TRUE
  /\ pc' = "finally"
  /\ cb' = "status"
  /\ st' = StJobError
  /\ reported' = 1
  /\ UNCHANGED <<flashVars, evt, faulted, raised, afVars, acqVars,
                 sawEmpty, capVars,
                 cam, cur, batch, atFault, cause, running, cam_ref, q, jstate,
                 execLog, envVars, hstate, exits, disc, nextJob, liveAt,
                 stopVars>>

\* lines 287-289: if e.code == gp.GP_ERROR_IO: done.set(); break
LoopSetIO ==
  /\ pc = "set_io"
  /\ doneCount' = SetDone(doneCount, cur)
  /\ doneLog' = LogDone(doneLog, doneCount, cur)
  /\ brk' = TRUE
  /\ pc' = "finally"
  /\ cb' = "none"
  /\ st' = NoStatus
  /\ UNCHANGED <<flashVars, evt, faulted, raised, afVars, acqVars,
                 sawEmpty, reported, capVars,
                 cam, cur, batch, atFault, cause, running, cam_ref, q, jstate,
                 execLog, envVars, hstate, exits, disc, nextJob, liveAt,
                 stopVars>>

\* the drain written with "if" in place of "while": one job per iteration
LoopFinallyOnce ==
  /\ pc = "finally"
  /\ doneCount' = SetDone(doneCount, cur)
  /\ doneLog' = LogDone(doneLog, doneCount, cur)
  /\ brk' = FALSE
  /\ reported' = 0
  /\ capI' = 0 /\ capT' = 0 /\ capDeadline' = 0 /\ capLog' = <<>>
  /\ capFiles' = 0 /\ capOther' = FALSE /\ capOut' = "none"
  /\ IF brk
       THEN pc' = "cleanup" /\ cause' = "job" /\ cur' = cur
       ELSE pc' = "preview" /\ cause' = cause /\ cur' = 0
  /\ cb' = "none"
  /\ st' = NoStatus
  /\ raised' = "none"
  /\ UNCHANGED <<flashVars, evt, faulted, afVars, acqVars,
                 sawEmpty, capPc, capTimedOut,
                 cam, batch, atFault, running, cam_ref, q, jstate,
                 execLog, envVars, hstate, exits, disc, nextJob, liveAt,
                 stopVars>>

\* a finally clause after which the pending break is not taken
LoopFinallyNoBreak ==
  /\ pc = "finally"
  /\ doneCount' = SetDone(doneCount, cur)
  /\ doneLog' = LogDone(doneLog, doneCount, cur)
  /\ brk' = FALSE
  /\ reported' = 0
  /\ capI' = 0 /\ capT' = 0 /\ capDeadline' = 0 /\ capLog' = <<>>
  /\ capFiles' = 0 /\ capOther' = FALSE /\ capOut' = "none"
  /\ pc' = "drain" /\ cause' = cause /\ cur' = 0
  /\ cb' = "none"
  /\ st' = NoStatus
  /\ raised' = "none"
  /\ UNCHANGED <<flashVars, evt, faulted, afVars, acqVars,
                 sawEmpty, capPc, capTimedOut,
                 cam, batch, atFault, running, cam_ref, q, jstate,
                 execLog, envVars, hstate, exits, disc, nextJob, liveAt,
                 stopVars>>

\* lines 293-294: finally: done.set(); then the pending break (line 328
\* leaves the main loop) or the next turn of the drain
LoopFinally ==
  /\ pc = "finally"
  /\ doneCount' = SetDone(doneCount, cur)
  /\ doneLog' = LogDone(doneLog, doneCount, cur)
  /\ brk' = FALSE
  /\ reported' = 0
  /\ capI' = 0 /\ capT' = 0 /\ capDeadline' = 0 /\ capLog' = <<>>
  /\ capFiles' = 0 /\ capOther' = FALSE /\ capOut' = "none"
  /\ IF brk
       THEN pc' = "cleanup" /\ cause' = "job" /\ cur' = cur
       ELSE pc' = "drain" /\ cause' = cause /\ cur' = 0
  /\ cb' = "none"
  /\ st' = NoStatus
  /\ raised' = "none"
  /\ UNCHANGED <<flashVars, evt, faulted, afVars, acqVars,
                 sawEmpty, capPc, capTimedOut,
                 cam, batch, atFault, running, cam_ref, q, jstate,
                 execLog, envVars, hstate, exits, disc, nextJob, liveAt,
                 stopVars>>

\* a preview whose failure skips the event poll of the iteration
LoopPreviewSkipsEvent ==
  /\ pc = "preview"
  /\ \E outcome \in {"ok", "transient"} \cup (IF CanRaiseIO THEN {"io"} ELSE {}) :
       CASE outcome = "io" ->
              /\ pc' = "cleanup" /\ cause' = "preview" /\ atFault' = Range(q)
              /\ sawEmpty' = FALSE
              /\ faulted' = faulted \cup {cam}
              /\ cb' = "none"
              /\ st' = NoStatus
         [] outcome = "transient" ->
              /\ pc' = "main" /\ cause' = cause /\ atFault' = atFault
              /\ sawEmpty' = FALSE
              /\ faulted' = faulted
              /\ cb' = "none"
              /\ st' = NoStatus
         [] OTHER ->
              /\ pc' = "event" /\ cause' = cause /\ atFault' = atFault
              /\ sawEmpty' = sawEmpty
              /\ faulted' = faulted
              /\ cb' = "frame"
              /\ st' = NoStatus
  /\ batch' = {}
  /\ UNCHANGED <<flashVars, evt, raised, afVars, acqVars,
                 reported, capVars,
                 cam, cur, brk, running, cam_ref, jobVars, envVars,
                 hstate, exits, disc, nextJob, liveAt, stopVars>>

\* a preview step that takes a failed frame for a disconnect
LoopPreviewEscalates ==
  /\ pc = "preview"
  /\ \E outcome \in {"ok", "transient"} \cup (IF CanRaiseIO THEN {"io"} ELSE {}) :
       IF outcome # "ok"
         THEN /\ pc' = "cleanup" /\ cause' = "preview" /\ atFault' = Range(q)
              /\ sawEmpty' = FALSE
              /\ faulted' = IF outcome = "io" THEN faulted \cup {cam} ELSE faulted
              /\ cb' = "none"
              /\ st' = NoStatus
         ELSE /\ pc' = "event" /\ cause' = cause /\ atFault' = atFault
              /\ sawEmpty' = sawEmpty
              /\ faulted' = faulted
              /\ cb' = "frame"
              /\ st' = NoStatus
  /\ batch' = {}
  /\ UNCHANGED <<flashVars, evt, raised, afVars, acqVars,
                 reported, capVars,
                 cam, cur, brk, running, cam_ref, jobVars, envVars,
                 hstate, exits, disc, nextJob, liveAt, stopVars>>

\* lines 298-308: cam.capture_preview() and on_frame; GP_ERROR_IO breaks,
\* any other error sleeps and goes on to the event poll
LoopPreview ==
  /\ pc = "preview"
  /\ \E outcome \in {"ok", "transient"} \cup (IF CanRaiseIO THEN {"io"} ELSE {}) :
       IF outcome = "io"
         THEN /\ pc' = "cleanup" /\ cause' = "preview" /\ atFault' = Range(q)
              /\ sawEmpty' = FALSE
              /\ faulted' = faulted \cup {cam}
              /\ cb' = "none"
              /\ st' = NoStatus
         ELSE /\ pc' = "event" /\ cause' = cause /\ atFault' = atFault
              /\ sawEmpty' = sawEmpty
              /\ faulted' = faulted
              /\ cb' = IF outcome = "ok" THEN "frame" ELSE "none"
              /\ st' = NoStatus
  /\ batch' = {}
  /\ UNCHANGED <<flashVars, evt, raised, afVars, acqVars,
                 reported, capVars,
                 cam, cur, brk, running, cam_ref, jobVars, envVars,
                 hstate, exits, disc, nextJob, liveAt, stopVars>>

\* how the event step may go: "timeout" and "other" (an event that is not
\* FILE_ADDED), "file" (FILE_ADDED, fetched, saved and handed to on_file),
\* "file_err"/"file_io" (FILE_ADDED and the fetch or the save raised),
\* "err"/"io" (wait_for_event raised); the io ones are disconnect-class
EventOutcomes ==
  {"timeout", "other", "file", "file_err", "err"}
    \cup (IF CanRaiseIO THEN {"io", "file_io"} ELSE {})

\* an event step that delivers on every event it receives
LoopEventDeliversAny ==
  /\ pc = "event"
  /\ pc' = "main"
  /\ sawEmpty' = FALSE
  /\ evt' \in EventOutcomes
  /\ cb' = IF evt' \in {"file", "other"} THEN "file" ELSE "none"
  /\ st' = NoStatus
  /\ UNCHANGED <<flashVars, faulted, raised, afVars, acqVars,
                 reported, capVars,
                 cam, cur, brk, batch, atFault, cause, running, cam_ref,
                 jobVars, envVars, hstate, exits, disc, nextJob, liveAt,
                 stopVars>>

\* lines 311-326: cam.wait_for_event(10), file_get and on_file; every
\* exception is swallowed (except Exception: pass); continue
LoopEvent ==
  /\ pc = "event"
  /\ pc' = "main"
  /\ sawEmpty' = FALSE
  /\ evt' \in EventOutcomes
  /\ cb' = IF evt' = "file" THEN "file" ELSE "none"
  /\ st' = NoStatus
  /\ UNCHANGED <<flashVars, faulted, raised, afVars, acqVars,
                 reported, capVars,
                 cam, cur, brk, batch, atFault, cause, running, cam_ref,
                 jobVars, envVars, hstate, exits, disc, nextJob, liveAt,
                 stopVars>>

\* ------------------------------------- the loop thread inside capture_job
\* capture_job (lines 663-696) as the fn of a job: the loop thread is at
\* line 285 (pc = "exec") while capPc moves through the job's body.
\* Times are milliseconds.
Debounce        == 250    \* time.sleep(0.25) after each release write
CaptureDeadline == 8000   \* deadline = time.time() + 8
PollTimeout     == 300    \* cam.wait_for_event(300)
FileSettle      == 800    \* time.sleep(0.8) after the file was handed over
RestoreSettle   == 500    \* time.sleep(0.5) after the viewfinder write
\* an event that arrives during a poll ends the poll before its timeout
PollEarly       == PollTimeout \div 3

\* line 664: the tuple the for statement iterates over
ReleaseValues == <<"Press Half", "Press Full", "Release Full", "Release Half">>

\* the clock when the for loop of lines 664-669 is left: only its sleeps
\* take time
CapSeqEnd == Debounce * Cardinality({i \in 1..Len(capLog) : capLog[i] = "sleep"})

\* how a call on the handle may fail: any error that is not
\* disconnect-class, or a disconnect-class one when the transport is lost
DevErrors == {"error"} \cup (IF CanRaiseIO THEN {"io"} ELSE {})

\* capture_job is left (return or raise): line 285 continues in the except
\* clauses (a status message for every error that is not disconnect-class)
CapLeave(out) ==
  /\ capOut' = out
  /\ capPc' = "idle"
  /\ pc' = AfterJob(CASE out = "io" -> "io" [] out = "ok" -> "ok" [] OTHER -> "transient")
  /\ jstate' = [jstate EXCEPT ![cur] = IF out = "io" THEN "aborted" ELSE "ran"]
  /\ atFault' = IF out = "io" THEN Range(q) ELSE atFault
  /\ reported' = IF out \in {"timeout", "error"} THEN 1 ELSE 0
  /\ cb' = IF out \in {"timeout", "error"} THEN "status" ELSE "none"
  /\ st' = Reported(cb', StJobError)
  /\ raised' = CASE out = "io" -> "io" [] out = "ok" -> "none" [] OTHER -> "transient"
  /\ faulted' = IF out = "io" THEN faulted \cup {cam} ELSE faulted
  /\ capTimedOut' = IF out = "timeout" THEN capTimedOut \cup {cur} ELSE capTimedOut

\* the release write that is not followed by the debounce sleep
CapWriteNoDebounce ==
  /\ pc = "exec"
  /\ capPc \in {"idle", "write"}
  /\ \E res \in {"done"} \cup DevErrors :
       IF res = "done"
         THEN /\ capLog' = Append(capLog, ReleaseValues[capI + 1])
              /\ capI' = capI + 1
              /\ capPc' = IF capI + 1 < Len(ReleaseValues) THEN "write" ELSE "deadline"
              /\ cb' = "none"
              /\ st' = NoStatus
              /\ UNCHANGED <<raised, faulted, pc, jstate, atFault, reported, capOut, capTimedOut>>
         ELSE /\ CapLeave(res)
              /\ UNCHANGED <<capLog, capI>>
  /\ UNCHANGED <<flashVars, evt, afVars, acqVars,
                 sawEmpty, capT, capDeadline, capFiles, capOther,
                 cam, cur, brk, batch, cause, running, cam_ref, q, doneCount,
                 execLog, doneLog, envVars, hstate, exits, disc, nextJob,
                 liveAt, stopVars>>

\* lines 665-668: cfg = cam.get_config(); r.set_value(val);
\* cam.set_single_config("eosremoterelease", r), for the next val
CapWrite ==
  /\ pc = "exec"
  /\ capPc \in {"idle", "write"}
  /\ \E res \in {"done"} \cup DevErrors :
       IF res = "done"
         THEN /\ capLog' = Append(capLog, ReleaseValues[capI + 1])
              /\ capI' = capI + 1
              /\ capPc' = "sleep"
              /\ cb' = "none"
              /\ st' = NoStatus
              /\ UNCHANGED <<raised, faulted, pc, jstate, atFault, reported, capOut, capTimedOut>>
         ELSE /\ CapLeave(res)
              /\ UNCHANGED <<capLog, capI>>
  /\ UNCHANGED <<flashVars, evt, afVars, acqVars,
                 sawEmpty, capT, capDeadline, capFiles, capOther,
                 cam, cur, brk, batch, cause, running, cam_ref, q, doneCount,
                 execLog, doneLog, envVars, hstate, exits, disc, nextJob,
                 liveAt, stopVars>>

\* line 669: time.sleep(0.25); then the next val, or line 671
CapSleep ==
  /\ pc = "exec"
  /\ capPc = "sleep"
  /\ capT' = capT + Debounce
  /\ capLog' = Append(capLog, "sleep")
  /\ capPc' = IF capI < Len(ReleaseValues) THEN "write" ELSE "deadline"
  /\ cb' = "none"
  /\ st' = NoStatus
  /\ UNCHANGED <<flashVars, evt, faulted, raised, afVars, acqVars,
                 sawEmpty, reported, capI, capDeadline, capFiles, capOther, capOut,
                 capTimedOut, pc, cam, cur, brk, batch, atFault, cause, running, cam_ref, jobVars,
                 envVars, hstate, exits, disc, nextJob, liveAt, stopVars>>

\* a deadline counted from the entry into capture_job
CapSetDeadlineFromStart ==
  /\ pc = "exec"
  /\ capPc = "deadline"
  /\ capDeadline' = CaptureDeadline
  /\ capPc' = "test"
  /\ cb' = "none"
  /\ st' = NoStatus
  /\ UNCHANGED <<flashVars, evt, faulted, raised, afVars, acqVars,
                 sawEmpty, reported, capI, capT, capLog, capFiles, capOther, capOut,
                 capTimedOut, pc, cam, cur, brk, batch, atFault, cause, running, cam_ref, jobVars,
                 envVars, hstate, exits, disc, nextJob, liveAt, stopVars>>

\* line 671: deadline = time.time() + 8
CapSetDeadline ==
  /\ pc = "exec"
  /\ capPc = "deadline"
  /\ capDeadline' = capT + CaptureDeadline
  /\ capPc' = "test"
  /\ cb' = "none"
  /\ st' = NoStatus
  /\ UNCHANGED <<flashVars, evt, faulted, raised, afVars, acqVars,
                 sawEmpty, reported, capI, capT, capLog, capFiles, capOther, capOut,
                 capTimedOut, pc, cam, cur, brk, batch, atFault, cause, running, cam_ref, jobVars,
                 envVars, hstate, exits, disc, nextJob, liveAt, stopVars>>

\* the timeout handled like a disconnect-class error
CapTestAsDisconnect ==
  /\ pc = "exec"
  /\ capPc = "test"
  /\ IF capT < capDeadline
       THEN /\ capPc' = "wait"
            /\ cb' = "none"
            /\ st' = NoStatus
            /\ UNCHANGED <<raised, faulted, pc, jstate, atFault, reported, capOut, capTimedOut>>
       ELSE /\ capOut' = "timeout"
            /\ capPc' = "idle"
            /\ pc' = "set_io"
            /\ jstate' = [jstate EXCEPT ![cur] = "aborted"]
            /\ atFault' = Range(q)
            /\ reported' = 0
            /\ cb' = "none"
            /\ st' = NoStatus
            /\ raised' = "io"
            /\ faulted' = faulted \cup {cam}
            /\ capTimedOut' = capTimedOut \cup {cur}
  /\ UNCHANGED <<flashVars, evt, afVars, acqVars,
                 sawEmpty, capI, capT, capDeadline, capLog, capFiles, capOther,
                 cam, cur, brk, batch, cause, running, cam_ref, q, doneCount,
                 execLog, doneLog, envVars, hstate, exits, disc, nextJob,
                 liveAt, stopVars>>

\* line 672: while time.time() < deadline: ; line 696 once it is false:
\* raise RuntimeError("Timed out ...")
CapTest ==
  /\ pc = "exec"
  /\ capPc = "test"
  /\ IF capT < capDeadline
       THEN /\ capPc' = "wait"
            /\ cb' = "none"
            /\ st' = NoStatus
            /\ UNCHANGED <<raised, faulted, pc, jstate, atFault, reported, capOut, capTimedOut>>
       ELSE CapLeave("timeout")
  /\ UNCHANGED <<flashVars, evt, afVars, acqVars,
                 sawEmpty, capI, capT, capDeadline, capLog, capFiles, capOther,
                 cam, cur, brk, batch, cause, running, cam_ref, q, doneCount,
                 execLog, doneLog, envVars, hstate, exits, disc, nextJob,
                 liveAt, stopVars>>

\* lines 673-674: et, ed = cam.wait_for_event(300): the timeout event
\* after 300 ms, or before that FILE_ADDED or an event of another type
CapWait ==
  /\ pc = "exec"
  /\ capPc = "wait"
  /\ \E res \in {"timeout", "other", "file"} \cup DevErrors :
       CASE res = "timeout" ->
              /\ capT' = capT + PollTimeout
              /\ capPc' = "test"
              /\ cb' = "none"
              /\ st' = NoStatus
              /\ UNCHANGED <<raised, faulted, pc, jstate, atFault, reported, capOut,
                             capTimedOut, capOther>>
         [] res = "other" ->
              /\ capT' = capT + PollEarly
              /\ capPc' = "test"
              /\ capOther' = TRUE
              /\ cb' = "none"
              /\ st' = NoStatus
              /\ UNCHANGED <<raised, faulted, pc, jstate, atFault, reported, capOut, capTimedOut>>
         [] res = "file" ->
              /\ capT' = capT + PollEarly
              /\ capPc' = "fetch"
              /\ cb' = "none"
              /\ st' = NoStatus
              /\ UNCHANGED <<raised, faulted, pc, jstate, atFault, reported, capOut,
                             capTimedOut, capOther>>
         [] OTHER ->
              /\ CapLeave(res)
              /\ UNCHANGED <<capT, capOther>>
  /\ UNCHANGED <<flashVars, evt, afVars, acqVars,
                 sawEmpty, capI, capDeadline, capLog, capFiles,
                 cam, cur, brk, batch, cause, running, cam_ref, q, doneCount,
                 execLog, doneLog, envVars, hstate, exits, disc, nextJob,
                 liveAt, stopVars>>

\* lines 675-686: cam.file_get, cf.save, the rotation and the re-save
CapFetch ==
  /\ pc = "exec"
  /\ capPc = "fetch"
  /\ \E res \in {"done"} \cup DevErrors :
       IF res = "done"
         THEN /\ capPc' = "on_file"
              /\ cb' = "none"
              /\ st' = NoStatus
              /\ UNCHANGED <<raised, faulted, pc, jstate, atFault, reported, capOut, capTimedOut>>
         ELSE CapLeave(res)
  /\ UNCHANGED <<flashVars, evt, afVars, acqVars,
                 sawEmpty, capI, capT, capDeadline, capLog, capFiles, capOther,
                 cam, cur, brk, batch, cause, running, cam_ref, q, doneCount,
                 execLog, doneLog, envVars, hstate, exits, disc, nextJob,
                 liveAt, stopVars>>

\* a file handling that returns without the viewfinder write
CapOnFileReturns ==
  /\ pc = "exec"
  /\ capPc = "on_file"
  /\ capFiles' = capFiles + 1
  /\ capT' = capT + FileSettle
  /\ CapLeave("ok")
  /\ UNCHANGED <<flashVars, evt, afVars, acqVars,
                 sawEmpty, capI, capDeadline, capLog, capOther,
                 cam, cur, brk, batch, cause, running, cam_ref, q, doneCount,
                 execLog, doneLog, envVars, hstate, exits, disc, nextJob,
                 liveAt, stopVars>>

\* lines 687-689: self._on_file(dest); time.sleep(0.8)
CapOnFile ==
  /\ pc = "exec"
  /\ capPc = "on_file"
  /\ capFiles' = capFiles + 1
  /\ capT' = capT + FileSettle
  /\ capPc' = "restore"
  /\ cb' = "file"
  /\ st' = NoStatus
  /\ UNCHANGED <<flashVars, evt, faulted, raised, afVars, acqVars,
                 sawEmpty, reported, capI, capDeadline, capLog, capOther, capOut,
                 capTimedOut, pc, cam, cur, brk, batch, atFault, cause, running, cam_ref, jobVars,
                 envVars, hstate, exits, disc, nextJob, liveAt, stopVars>>

\* the file handling without the return at line 694
CapRestoreNoReturn ==
  /\ pc = "exec"
  /\ capPc = "restore"
  /\ \E res \in {"done"} \cup DevErrors :
       IF res = "done"
         THEN /\ capT' = capT + RestoreSettle
              /\ capPc' = "test"
              /\ cb' = "none"
              /\ st' = NoStatus
              /\ UNCHANGED <<raised, faulted, pc, jstate, atFault, reported, capOut, capTimedOut>>
         ELSE /\ CapLeave(res)
              /\ capT' = capT
  /\ UNCHANGED <<flashVars, evt, afVars, acqVars,
                 sawEmpty, capI, capDeadline, capLog, capFiles, capOther,
                 cam, cur, brk, batch, cause, running, cam_ref, q, doneCount,
                 execLog, doneLog, envVars, hstate, exits, disc, nextJob,
                 liveAt, stopVars>>

\* lines 690-694: the viewfinder control set to 1 with cam.set_config;
\* time.sleep(0.5); return
CapRestore ==
  /\ pc = "exec"
  /\ capPc = "restore"
  /\ \E res \in {"done"} \cup DevErrors :
       IF res = "done"
         THEN /\ capT' = capT + RestoreSettle
              /\ CapLeave("ok")
         ELSE /\ CapLeave(res)
              /\ capT' = capT
  /\ UNCHANGED <<flashVars, evt, afVars, acqVars,
                 sawEmpty, capI, capDeadline, capLog, capFiles, capOther,
                 cam, cur, brk, batch, cause, running, cam_ref, q, doneCount,
                 execLog, doneLog, envVars, hstate, exits, disc, nextJob,
                 liveAt, stopVars>>

\* ------------------------------------------ the loop thread inside af_job
\* af_job (lines 631-643) as the fn of a job: the loop thread is at line
\* 285 (pc = "exec") while afPc moves through the job's body.
\* af_job is left (return or raise): line 285 continues in the except
\* clauses (a status message for every error that is not disconnect-class)
AfLeave(out) ==
  /\ afPc' = "idle"
  /\ afOk' = IF out = "ok" THEN afOk \cup {cur} ELSE afOk
  /\ pc' = AfterJob(CASE out = "io" -> "io" [] out = "ok" -> "ok" [] OTHER -> "transient")
  /\ jstate' = [jstate EXCEPT ![cur] = IF out = "io" THEN "aborted" ELSE "ran"]
  /\ atFault' = IF out = "io" THEN Range(q) ELSE atFault
  /\ reported' = IF out = "error" THEN 1 ELSE 0
  /\ cb' = IF out = "error" THEN "status" ELSE "none"
  /\ st' = Reported(cb', StJobError)
  /\ raised' = CASE out = "io" -> "io" [] out = "ok" -> "none" [] OTHER -> "transient"
  /\ faulted' = IF out = "io" THEN faulted \cup {cam} ELSE faulted

\* an af_job that leaves out the write of 0
AfWriteOffOmitted ==
  /\ pc = "exec"
  /\ afPc = "idle"
  /\ afPc' = "on"
  /\ cb' = "none"
  /\ st' = NoStatus
  /\ UNCHANGED <<flashVars, evt, faulted, raised, afLog, afOk, acqVars, capVars,
                 sawEmpty, reported, pc, cam, cur, brk, batch, atFault, cause,
                 running, cam_ref, jobVars, envVars, hstate, exits, disc,
                 nextJob, liveAt, stopVars>>

\* lines 634-638: cfg = cam.get_config(); af.set_value(0);
\* cam.set_single_config("autofocusdrive", af); time.sleep(0.1)
AfWriteOff ==
  /\ pc = "exec"
  /\ afPc = "idle"
  /\ \E res \in {"done"} \cup DevErrors :
       IF res = "done"
         THEN /\ afLog' = Append(afLog, <<cur, 0>>)
              /\ afPc' = "on"
              /\ cb' = "none"
              /\ st' = NoStatus
              /\ UNCHANGED <<pc, jstate, atFault, reported, raised, faulted, afOk>>
         ELSE /\ AfLeave(res)
              /\ afLog' = afLog
  /\ UNCHANGED <<flashVars, evt, acqVars, capVars,
                 sawEmpty, cam, cur, brk, batch, cause, running, cam_ref, q,
                 doneCount, execLog, doneLog, envVars, hstate, exits, disc,
                 nextJob, liveAt, stopVars>>

\* lines 639-643: cfg = cam.get_config(); af.set_value(1);
\* cam.set_single_config("autofocusdrive", af); time.sleep(2.0); return
AfWriteOn ==
  /\ pc = "exec"
  /\ afPc = "on"
  /\ \E res \in {"done"} \cup DevErrors :
       IF res = "done"
         THEN /\ afLog' = Append(afLog, <<cur, 1>>)
              /\ AfLeave("ok")
         ELSE /\ AfLeave(res)
              /\ afLog' = afLog
  /\ UNCHANGED <<flashVars, evt, acqVars, capVars,
                 sawEmpty, cam, cur, brk, batch, cause, running, cam_ref, q,
                 doneCount, execLog, doneLog, envVars, hstate, exits, disc,
                 nextJob, liveAt, stopVars>>

\* --------------------------------------------------------- the flash toggle
\* line 604: the exposure mode written for a want_on
ModeOf(on) == IF on THEN "Green" ELSE "Flash Off"

\* lines 589-616 on the UI thread: flash_on is flipped, want_on is frozen
\* (598) and a new thread is started for this toggle (616)
FlashToggle ==
  /\ \E n \in 1..MaxToggles :
       /\ flashThr[n] = "none"
       /\ \A k \in 1..(n - 1) : flashThr[k] # "none"
       /\ flashThr' = [flashThr EXCEPT ![n] = IF ~flash_on THEN "on" ELSE "off"]
  /\ flash_on' = ~flash_on
  /\ UNCHANGED <<flashWant, flashDev, flashOk, obsVars, afVars, acqVars,
                 capVars, loopVars, running, cam_ref, jobVars, envVars, hstate,
                 exits, disc, nextJob, liveAt, stopVars>>

\* lines 611-612 in the thread of toggle n: self._cam.run(flash_job), that
\* is run() (207-210) with the flash_job of this toggle
FlashSubmit(n) ==
  /\ flashThr[n] \in {"on", "off"}
  /\ nextJob <= MaxJobs
  /\ q' = Append(q, nextJob)
  /\ jstate' = [jstate EXCEPT ![nextJob] = "queued"]
  /\ liveAt' = [liveAt EXCEPT ![nextJob] = IF pc \in MainPcs THEN cam ELSE NoCam]
  /\ nextJob' = nextJob + 1
  /\ failSub' = IF pc \in {"acq_fail", "backoff"}
                  THEN failSub \cup {nextJob} ELSE failSub
  /\ flashWant' = [flashWant EXCEPT ![nextJob] = flashThr[n]]
  /\ flashThr' = [flashThr EXCEPT ![n] = "put"]
  /\ UNCHANGED <<flash_on, flashDev, flashOk, obsVars, afVars, base,
                 capVars,
                 loopVars, running, cam_ref, envVars, hstate, exits, disc,
                 doneCount, execLog, doneLog, stopVars>>

\* the threads of the toggles made so far, in any order
FlashSubmitAny == \E n \in 1..MaxToggles : FlashSubmit(n)

\* lines 600-606 as the fn of a job (line 285): get_config, set_value of
\* autoexposuremode from the frozen want_on, set_single_config, sleep(0.3);
\* an error continues in the except clauses of the drain
FlashWrite ==
  /\ pc = "exec"
  /\ \E res \in {"done"} \cup DevErrors :
       /\ flashDev' = IF res = "done" THEN ModeOf(flashWant[cur] = "on") ELSE flashDev
       /\ flashOk' = IF res = "done" THEN flashOk \cup {cur} ELSE flashOk
       /\ pc' = AfterJob(CASE res = "io" -> "io" [] res = "done" -> "ok" [] OTHER -> "transient")
       /\ jstate' = [jstate EXCEPT ![cur] = IF res = "io" THEN "aborted" ELSE "ran"]
       /\ atFault' = IF res = "io" THEN Range(q) ELSE atFault
       /\ reported' = IF res = "error" THEN 1 ELSE 0
       /\ cb' = IF res = "error" THEN "status" ELSE "none"
       /\ st' = Reported(cb', StJobError)
       /\ raised' = CASE res = "io" -> "io" [] res = "done" -> "none" [] OTHER -> "transient"
       /\ faulted' = IF res = "io" THEN faulted \cup {cam} ELSE faulted
  /\ UNCHANGED <<flash_on, flashThr, flashWant, evt, afVars, acqVars,
                 sawEmpty, capVars,
                 cam, cur, brk, batch, cause, running, cam_ref, q, doneCount,
                 execLog, doneLog, envVars, hstate, exits, disc, nextJob,
                 liveAt, stopVars>>

\* ------------------------------------------------ the loop thread: cleanup
\* line 331 with _drain_queue (235-239): while not empty: get(); done.set()
LoopCleanupNoDrain ==
  /\ pc = "cleanup"
  /\ pc' = "cleanup_check"
  /\ cb' = "none"
  /\ st' = NoStatus
  /\ UNCHANGED <<flashVars, evt, faulted, raised, afVars, acqVars,
                 sawEmpty, reported, capVars,
                 cam, cur, brk, batch, atFault, cause, running, cam_ref,
                 jobVars, envVars, hstate, exits, disc, nextJob, liveAt,
                 stopVars>>

\* a cleanup that discards one queued job only
LoopCleanupDrainsOne ==
  /\ pc = "cleanup"
  /\ IF q # <<>>
       THEN LET g == QueueGet(q) IN
            /\ q' = g[2]
            /\ jstate' = [jstate EXCEPT ![g[1]] = "discarded"]
            /\ doneCount' = SetDone(doneCount, g[1])
            /\ doneLog' = LogDone(doneLog, doneCount, g[1])
       ELSE UNCHANGED <<q, jstate, doneCount, doneLog>>
  /\ pc' = "cleanup_check"
  /\ cb' = "none"
  /\ st' = NoStatus
  /\ failSub' = IF q # <<>> THEN failSub \ {QueueGet(q)[1]} ELSE failSub
  /\ UNCHANGED <<flashVars, evt, faulted, raised, afVars, base,
                 sawEmpty, reported, capVars,
                 cam, cur, brk, batch, atFault, cause, running, cam_ref,
                 execLog, envVars, hstate, exits, disc, nextJob, liveAt,
                 stopVars>>

LoopCleanup ==
  /\ pc = "cleanup"
  /\ IF q # <<>>
       THEN LET g == QueueGet(q) IN
            /\ q' = g[2]
            /\ jstate' = [jstate EXCEPT ![g[1]] = "discarded"]
            /\ doneCount' = SetDone(doneCount, g[1])
            /\ doneLog' = LogDone(doneLog, doneCount, g[1])
            /\ pc' = pc
       ELSE /\ pc' = "cleanup_check"
            /\ UNCHANGED <<q, jstate, doneCount, doneLog>>
  /\ cb' = "none"
  /\ st' = NoStatus
  /\ failSub' = IF q # <<>> THEN failSub \ {QueueGet(q)[1]} ELSE failSub
  /\ UNCHANGED <<flashVars, evt, faulted, raised, afVars, base,
                 sawEmpty, reported, capVars,
                 cam, cur, brk, batch, atFault, cause, running, cam_ref,
                 execLog, envVars, hstate, exits, disc, nextJob, liveAt,
                 stopVars>>

\* a cleanup that takes the reconnect path whatever the running flag says
LoopCleanupCheckNoFlag ==
  /\ pc = "cleanup_check"
  /\ pc' = "clear_ref"
  /\ cb' = "none"
  /\ st' = NoStatus
  /\ UNCHANGED <<flashVars, evt, faulted, raised, afVars, acqVars,
                 sawEmpty, reported, capVars,
                 cam, cur, brk, batch, atFault, cause, running, cam_ref,
                 jobVars, envVars, hstate, exits, disc, nextJob, liveAt,
                 stopVars>>

\* line 332: if not self._running:
LoopCleanupCheck ==
  /\ pc = "cleanup_check"
  /\ pc' = IF running THEN "clear_ref" ELSE "quit_exit"
  /\ cb' = "none"
  /\ st' = NoStatus
  /\ UNCHANGED <<flashVars, evt, faulted, raised, afVars, acqVars,
                 sawEmpty, reported, capVars,
                 cam, cur, brk, batch, atFault, cause, running, cam_ref,
                 jobVars, envVars, hstate, exits, disc, nextJob, liveAt,
                 stopVars>>

\* lines 334-338: cam.exit() (errors swallowed); return
LoopQuitExit ==
  /\ pc = "quit_exit"
  /\ hstate' = ExitHandle(hstate, cam)
  /\ exits' = [exits EXCEPT ![cam] = @ + 1]
  /\ pc' = "terminated"
  /\ cur' = 0 /\ batch' = {} /\ atFault' = {}
  /\ cb' = "none"
  /\ st' = NoStatus
  /\ UNCHANGED <<flashVars, evt, faulted, raised, afVars, acqVars,
                 sawEmpty, reported, capVars,
                 cam, brk, cause, running, cam_ref, jobVars, envVars, disc,
                 nextJob, liveAt, stopVars>>

\* line 339: self._cam_ref = None
LoopClearRef ==
  /\ pc = "clear_ref"
  /\ cam_ref' = NoCam
  /\ pc' = "notify"
  /\ cb' = "none"
  /\ st' = NoStatus
  /\ UNCHANGED <<flashVars, evt, faulted, raised, afVars, acqVars,
                 sawEmpty, reported, capVars,
                 cam, cur, brk, batch, atFault, cause, running, jobVars,
                 envVars, hstate, exits, disc, nextJob, liveAt, stopVars>>

\* line 340: self._on_disconnect()
LoopNotifyOmitted ==
  /\ pc = "notify"
  /\ pc' = "reconn_exit"
  /\ cb' = "none"
  /\ st' = NoStatus
  /\ UNCHANGED <<flashVars, evt, faulted, raised, afVars, acqVars,
                 sawEmpty, reported, capVars,
                 cam, cur, brk, batch, atFault, cause, running, cam_ref,
                 jobVars, envVars, hstate, exits, disc, nextJob, liveAt,
                 stopVars>>

LoopNotify ==
  /\ pc = "notify"
  /\ disc' = [disc EXCEPT ![cam] = @ + 1]
  /\ pc' = "reconn_exit"
  /\ cb' = "disconnect"
  /\ st' = NoStatus
  /\ UNCHANGED <<flashVars, evt, faulted, raised, afVars, acqVars,
                 sawEmpty, reported, capVars,
                 cam, cur, brk, batch, atFault, cause, running, cam_ref,
                 jobVars, envVars, hstate, exits, nextJob, liveAt, stopVars>>

\* a reconnect that drops the old handle without exit()
LoopReconnExitSkipped ==
  /\ pc = "reconn_exit"
  /\ pc' = "reconn_sleep"
  /\ cb' = "none"
  /\ st' = NoStatus
  /\ UNCHANGED <<flashVars, evt, faulted, raised, afVars, acqVars,
                 sawEmpty, reported, capVars,
                 cam, cur, brk, batch, atFault, cause, running, cam_ref,
                 jobVars, envVars, hstate, exits, disc, nextJob, liveAt,
                 stopVars>>

\* lines 341-344: cam.exit() (errors swallowed)
LoopReconnExit ==
  /\ pc = "reconn_exit"
  /\ hstate' = ExitHandle(hstate, cam)
  /\ exits' = [exits EXCEPT ![cam] = @ + 1]
  /\ pc' = "reconn_sleep"
  /\ cb' = "none"
  /\ st' = NoStatus
  /\ UNCHANGED <<flashVars, evt, faulted, raised, afVars, acqVars,
                 sawEmpty, reported, capVars,
                 cam, cur, brk, batch, atFault, cause, running, cam_ref,
                 jobVars, envVars, disc, nextJob, liveAt, stopVars>>

\* line 345: time.sleep(1), then back to line 267
LoopReconnSleep ==
  /\ pc = "reconn_sleep"
  /\ pc' = "outer"
  /\ cur' = 0 /\ batch' = {} /\ atFault' = {} /\ cause' = "none"
  /\ cb' = "none"
  /\ st' = NoStatus
  /\ UNCHANGED <<flashVars, evt, faulted, raised, afVars, acqVars,
                 sawEmpty, reported, capVars,
                 cam, brk, running, cam_ref, jobVars, envVars, hstate, exits,
                 disc, nextJob, liveAt, stopVars>>

\* ----------------------------------------------------------------- stop()
\* stop() without the test "if cam is not None"
StopCallNoNoneTest ==
  /\ stopPc = "idle"
  /\ stopCalls < MaxStops
  /\ running' = FALSE
  /\ stopCalls' = stopCalls + 1
  /\ stopCam' = cam_ref
  /\ stopPc' = "exit"
  /\ UNCHANGED <<flashVars, obsVars, afVars, acqVars,
                 capVars,
                 loopVars, cam_ref, jobVars, envVars, hstate, exits, disc,
                 nextJob, liveAt, stopReturns>>

\* a stop() that reports through the status callback
StopCallReports ==
  /\ stopPc = "idle"
  /\ stopCalls < MaxStops
  /\ running' = FALSE
  /\ stopCalls' = stopCalls + 1
  /\ stopCam' = cam_ref
  /\ stopPc' = IF cam_ref # NoCam THEN "exit" ELSE "join"
  /\ cb' = "status"
  /\ st' = StReady
  /\ UNCHANGED <<flashVars, evt, faulted, raised, afVars, acqVars,
                 capVars,
                 loopVars, cam_ref, jobVars, envVars, hstate, exits, disc,
                 nextJob, liveAt, stopReturns>>

\* lines 224-227: self._running = False; cam = self._cam_ref;
\* if cam is not None: (once the loop has seen the flag cleared it never
\* writes _cam_ref again, so the write and the read are taken in one step)
StopCall ==
  /\ stopPc = "idle"
  /\ stopCalls < MaxStops
  /\ running' = FALSE
  /\ stopCalls' = stopCalls + 1
  /\ stopCam' = cam_ref
  /\ stopPc' = IF cam_ref # NoCam THEN "exit" ELSE "join"
  /\ UNCHANGED <<flashVars, obsVars, afVars, acqVars,
                 capVars,
                 loopVars, cam_ref, jobVars, envVars, hstate, exits, disc,
                 nextJob, liveAt, stopReturns>>

\* lines 228-231: cam.exit() (errors swallowed)
StopExit ==
  /\ stopPc = "exit"
  /\ hstate' = ExitHandle(hstate, stopCam)
  /\ exits' = [exits EXCEPT ![stopCam] = @ + 1]
  /\ stopPc' = "clear"
  /\ UNCHANGED <<flashVars, obsVars, afVars, acqVars,
                 capVars,
                 loopVars, running, cam_ref, jobVars, envVars, disc, nextJob,
                 liveAt, stopCam, stopCalls, stopReturns>>

\* line 232: self._cam_ref = None
StopClear ==
  /\ stopPc = "clear"
  /\ cam_ref' = NoCam
  /\ stopPc' = "join"
  /\ UNCHANGED <<flashVars, obsVars, afVars, acqVars,
                 capVars,
                 loopVars, running, jobVars, envVars, hstate, exits, disc,
                 nextJob, liveAt, stopCam, stopCalls, stopReturns>>

\* Thread.join(timeout): returns when the thread has ended or, when a
\* timeout was given, when it elapses
JoinReturns(hasTimeout) == hasTimeout \/ pc = "terminated"

\* line 233: self._thread.join(timeout=2)
StopJoinNoTimeout ==
  /\ stopPc = "join"
  /\ JoinReturns(FALSE)
  /\ stopPc' = "idle"
  /\ stopCam' = NoCam
  /\ stopReturns' = stopReturns + 1
  /\ UNCHANGED <<flashVars, obsVars, afVars, acqVars,
                 capVars,
                 loopVars, running, cam_ref, jobVars, envVars, hstate, exits,
                 disc, nextJob, liveAt, stopCalls>>

StopJoin ==
  /\ stopPc = "join"
  /\ JoinReturns(TRUE)
  /\ stopPc' = "idle"
  /\ stopCam' = NoCam
  /\ stopReturns' = stopReturns + 1
  /\ UNCHANGED <<flashVars, obsVars, afVars, acqVars,
                 capVars,
                 loopVars, running, cam_ref, jobVars, envVars, hstate, exits,
                 disc, nextJob, liveAt, stopCalls>>

\* --------------------------------------------------------- specifications
LoopStep ==
  \/ LoopOuter \/ LoopAcqCheck \/ ConnectBegin \/ ConnectInit
  \/ ConnectBaseline \/ ConnectViewfinder \/ ConnectSetRef
  \/ LoopAcqFail \/ LoopBackoff \/ LoopPostAcq
  \/ LoopMain \/ LoopDrain \/ LoopExec \/ LoopSetIO \/ LoopFinally
  \/ LoopPreview \/ LoopEvent \/ LoopCleanup \/ LoopCleanupCheck
  \/ LoopQuitExit \/ LoopClearRef \/ LoopNotify \/ LoopReconnExit
  \/ LoopReconnSleep

StopStep == StopExit \/ StopClear \/ StopJoin

Next ==
  \/ Submit \/ Unplug \/ Replug
  \/ LoopStep \/ LoopUnblock
  \/ StopCall \/ StopStep

Spec == Init /\ [][Next]_vars

\* run(fn) in the behaviours of LiveSpec
LiveSubmit == nextJob <= MaxLiveJobs /\ Submit

LiveNext ==
  \/ LiveSubmit \/ Unplug \/ Replug
  \/ LoopStep \/ LoopUnblock
  \/ StopCall \/ StopStep

\* the loop thread and a caller inside stop() are scheduled: a thread that
\* can take a step eventually takes one. Submissions, stop() calls, device
\* drops and the failure of a blocked call are not forced to happen.
LiveSpec == Init /\ [][LiveNext]_vars /\ WF_vars(LoopStep) /\ WF_vars(StopStep)

\* a session in which stop() is never called: the loop thread, the
\* submitters and the device
RunLoopStep ==
  \/ LoopOuter \/ LoopAcqCheck \/ ConnectBegin \/ ConnectInit
  \/ ConnectBaseline \/ ConnectViewfinder \/ ConnectSetRef
  \/ LoopAcqFail \/ LoopBackoff \/ LoopPostAcq
  \/ LoopMain \/ LoopDrain \/ LoopExec \/ LoopSetIO \/ LoopFinally
  \/ LoopPreview \/ LoopEvent \/ LoopCleanup \/ LoopCleanupCheck
  \/ LoopClearRef \/ LoopNotify \/ LoopReconnExit \/ LoopReconnSleep

RunNext == Submit \/ Unplug \/ Replug \/ RunLoopStep

RunSpec == Init /\ [][RunNext]_vars /\ WF_vars(RunLoopStep)

\* a session of capture jobs in which stop() is never called: every job
\* submitted through run() is capture_job
CapSubmit == nextJob <= MaxCapJobs /\ Submit

CapJobStep ==
  \/ CapWrite \/ CapSleep \/ CapSetDeadline \/ CapTest \/ CapWait
  \/ CapFetch \/ CapOnFile \/ CapRestore

CapLoopStep ==
  \/ LoopOuter \/ LoopAcqCheck \/ ConnectBegin \/ ConnectInit
  \/ ConnectBaseline \/ ConnectViewfinder \/ ConnectSetRef
  \/ LoopAcqFail \/ LoopBackoff \/ LoopPostAcq
  \/ LoopMain \/ LoopDrain \/ CapJobStep \/ LoopSetIO \/ LoopFinally
  \/ LoopPreview \/ LoopEvent \/ LoopCleanup \/ LoopCleanupCheck
  \/ LoopClearRef \/ LoopNotify \/ LoopReconnExit \/ LoopReconnSleep

CapNext == CapSubmit \/ Unplug \/ Replug \/ CapLoopStep

CapSpec == Init /\ [][CapNext]_vars

\* a session of autofocus jobs in which stop() is never called: every job
\* submitted through run() is af_job
AfSubmit == nextJob <= MaxAfJobs /\ Submit

AfJobStep == AfWriteOff \/ AfWriteOn

AfLoopStep ==
  \/ LoopOuter \/ LoopAcqCheck \/ ConnectBegin \/ ConnectInit
  \/ ConnectBaseline \/ ConnectViewfinder \/ ConnectSetRef
  \/ LoopAcqFail \/ LoopBackoff \/ LoopPostAcq
  \/ LoopMain \/ LoopDrain \/ AfJobStep \/ LoopSetIO \/ LoopFinally
  \/ LoopPreview \/ LoopEvent \/ LoopCleanup \/ LoopCleanupCheck
  \/ LoopClearRef \/ LoopNotify \/ LoopReconnExit \/ LoopReconnSleep

AfNext == AfSubmit \/ Unplug \/ Replug \/ AfLoopStep

AfSpec == Init /\ [][AfNext]_vars

\* a session of flash toggles in which stop() is never called: every job
\* submitted through run() is the flash_job of a toggle
FlashLoopStep ==
  \/ LoopOuter \/ LoopAcqCheck \/ ConnectBegin \/ ConnectInit
  \/ ConnectBaseline \/ ConnectViewfinder \/ ConnectSetRef
  \/ LoopAcqFail \/ LoopBackoff \/ LoopPostAcq
  \/ LoopMain \/ LoopDrain \/ FlashWrite \/ LoopSetIO \/ LoopFinally
  \/ LoopPreview \/ LoopEvent \/ LoopCleanup \/ LoopCleanupCheck
  \/ LoopClearRef \/ LoopNotify \/ LoopReconnExit \/ LoopReconnSleep

FlashNext == FlashToggle \/ FlashSubmitAny \/ Unplug \/ Replug \/ FlashLoopStep

FlashSpec == Init /\ [][FlashNext]_vars

\* ------------------------------------------------------------- properties
InOrder(s) == \A a, b \in 1..Len(s) : a < b => s[a] < s[b]

AfterCleanupPcs == {"cleanup_check", "clear_ref", "notify", "reconn_exit",
                    "reconn_sleep", "quit_exit"}

\* C1: every job submitted through run() eventually has its completion
\* event set (unless a job body blocks forever), whenever it was submitted.
C1_EverySubmittedJobSignalled ==
  \A j \in Jobs : (jstate[j] # "none") ~> (doneCount[j] > 0 \/ pc = "hung")

\* C2: done.set() is performed exactly once per job: never twice, and once
\* for every job that has left the queue and whose handling is finished.
C2_SetExactlyOnce ==
  \A j \in Jobs :
    /\ doneCount[j] <= 1
    /\ (jstate[j] \in {"ran", "aborted", "discarded"} /\ cur # j) => doneCount[j] = 1

\* C3: jobs are executed in submission order, one at a time, and no job is
\* executed while a job submitted before it is still queued.
C3_SubmissionOrder ==
  /\ InOrder(execLog)
  /\ Cardinality({j \in Jobs : jstate[j] = "running"}) <= 1
  /\ (pc \in {"exec", "hung", "set_io", "finally"}) =>
        \A i \in 1..Len(q) : q[i] > cur

C3_Witness ==
  /\ Len(execLog) >= 2
  /\ pc = "exec"
  /\ q # <<>>

\* C4: when job k raises a disconnect-class error, the jobs queued before it
\* on the same live handle have been executed, job k is signalled without
\* completing, and the jobs queued behind it are signalled done without
\* ever being executed.
C4_DisconnectInJobK ==
  /\ (cause = "job" /\ pc \in AfterCleanupPcs) =>
        /\ jstate[cur] = "aborted" /\ doneCount[cur] >= 1
        /\ \A j \in Jobs : (j < cur /\ liveAt[j] = cam) =>
              (jstate[j] = "ran" /\ j \in Range(execLog))
        /\ \A j \in atFault :
              /\ jstate[j] = "discarded"
              /\ doneCount[j] >= 1
              /\ j \notin Range(execLog)
  /\ \A j \in Jobs : jstate[j] = "discarded" => j \notin Range(execLog)

C4_Witness ==
  /\ cause = "job" /\ pc = "cleanup_check"
  /\ cur = 2
  /\ liveAt[1] = cam /\ jstate[1] = "ran"
  /\ atFault = {3}

\* C5: with no disconnect-class error and no shutdown, all jobs queued when
\* a main-loop iteration begins are executed and signalled, in submission
\* order, before the preview capture of that iteration; at the preview only
\* jobs submitted after the queue was seen empty are unsignalled.
C5_BatchSignalledBeforePreview ==
  (pc = "preview" /\ stopCalls = 0) =>
     /\ \A j \in batch : jstate[j] = "ran" /\ doneCount[j] = 1
     /\ \A j \in Jobs : (jstate[j] # "none" /\ j \notin Range(q)) => doneCount[j] >= 1
     /\ InOrder(doneLog)

C5_Witness ==
  /\ pc = "preview" /\ stopCalls = 0
  /\ Cardinality(batch) >= 2

\* C6: when stop() is never requested, a disconnect-class error of the
\* preview capture with jobs queued has every queued job signalled without
\* being executed, on_disconnect invoked exactly once, and is followed by a
\* new acquisition attempt.
C6_PreviewDisconnect ==
  /\ []((cause = "preview" /\ pc \in AfterCleanupPcs) =>
          \A j \in atFault :
            jstate[j] = "discarded" /\ doneCount[j] = 1 /\ j \notin Range(execLog))
  /\ []((cause = "preview" /\ pc \in {"cleanup", "cleanup_check", "clear_ref", "notify"})
          => disc[cam] = 0)
  /\ []((cause = "preview" /\ pc \in {"reconn_exit", "reconn_sleep"}) => disc[cam] = 1)
  /\ ((cause = "preview" /\ pc = "cleanup") ~> (pc = "reconn_sleep" /\ disc[cam] = 1))
  /\ ((cause = "preview" /\ pc = "reconn_sleep") ~> (pc = "connect"))

C6_Witness ==
  /\ cause = "preview" /\ pc = "reconn_sleep"
  /\ Cardinality(atFault) >= 2
  /\ disc[cam] = 1

\* C7: the acquisition phase is left only by a successful connect or by a
\* shutdown request; after a failed attempt or a disconnect a new attempt
\* is started unless stop() was requested; and once the device stays
\* connectable (and no stop() comes) the loop reaches its main loop.
C7_RetryUntilConnected ==
  /\ [][(pc \in AcqPcs /\ pc' \notin AcqPcs) =>
          \/ (pc = "set_ref" /\ pc' = "post_acq" /\ hstate[cam'] = "open" /\ cam_ref' = cam')
          \/ (~running /\ pc' = "post_acq")]_vars
  /\ ((pc \in {"acq_fail", "reconn_sleep"}) ~> (~running \/ pc = "connect"))
  /\ []<>(~connectable \/ ~running \/ pc \in MainPcs)

C7_Witness ==
  /\ pc = "main" /\ running
  /\ unplugs >= 1
  /\ Cardinality(Opened) >= 2

\* steps of stop() still ahead of its caller
StopRank ==
  CASE stopPc = "exit"  -> 3
    [] stopPc = "clear" -> 2
    [] stopPc = "join"  -> 1
    [] OTHER            -> 0

\* C8: a call to stop() always returns: in every state of the loop thread
\* the caller's next step can be taken (it never waits for the loop or for
\* a job), and every step brings it closer to the return.
C8_StopReturns ==
  /\ [](stopPc # "idle" => ENABLED StopStep)
  /\ [][stopPc # "idle" /\ stopPc' # stopPc => StopRank' < StopRank]_vars

C8_Witness ==
  /\ stopReturns >= 1
  /\ pc = "hung"

\* C9: stop() is idempotent: a further call returns like the first, the
\* running flag stays false, the call opens no handle and moves the loop
\* nowhere, no acquisition attempt is started once stop() was requested,
\* and a terminated loop stays terminated.
C9_StopIdempotent ==
  /\ [][~running => ~running']_vars
  /\ [][(~running /\ pc # "connect") => pc' # "connect"]_vars
  /\ [][(stopCalls' >= 2 /\ (stopPc' # stopPc \/ stopCalls' # stopCalls)) =>
          (pc' = pc /\ Opened' = Opened /\ ~running')]_vars
  /\ []((stopCalls >= 2 /\ stopPc # "idle") => ENABLED StopStep)
  /\ [][pc = "terminated" => pc' = "terminated"]_vars

C9_Witness ==
  /\ stopReturns >= 2
  /\ pc = "terminated"
  /\ ~running

\* C10: at most one handle is open (init() done, exit() not yet called) at
\* any time; exactly one, the loop's, while the loop is in its main loop;
\* none when an acquisition attempt begins.
C10_OneHandle ==
  /\ Cardinality(OpenNow) <= 1
  /\ (pc \in MainPcs => OpenNow = {cam})
  /\ (pc \in {"acq", "connect", "init"} => OpenNow = {})

\* positions at which the loop thread is inside a call on its handle
LoopHandlePcs == {"exec", "hung", "preview", "event", "quit_exit", "reconn_exit"}

\* C11 (as claimed): no two threads are ever inside operations on the same
\* handle at the same time.
C11_OneThreadInHandle ==
  ~(stopPc = "exit" /\ stopCam = cam /\ pc \in LoopHandlePcs)

\* C11 (amended): the only call into a handle made from a thread other than
\* the loop thread is the exit() of stop(), on the handle it read from
\* _cam_ref (an initialised one, never None) and after it cleared the
\* running flag; submitters never call into a handle.
C11_OnlyStopExitIsForeign ==
  (stopPc = "exit") =>
     /\ stopCam # NoCam
     /\ ~running
     /\ hstate[stopCam] # "none"

C11_Witness ==
  /\ stopPc = "exit"
  /\ stopCam = cam
  /\ pc = "hung"

\* C13: once stop() has been requested the loop does not begin executing
\* any job: it never enters fn(cam) with the running flag cleared.
C13_NoJobStartsAfterStop ==
  [][(~running /\ pc # "exec") => pc' # "exec"]_vars

\* C14: when the loop thread has terminated and no stop() call is still in
\* progress, every handle that was opened has been released.
C14_CleanTeardown ==
  (pc = "terminated" /\ stopPc = "idle") => OpenNow = {}

\* C15: every job is executed at most once: fn(cam) is entered once per job
\* at most, and never for a job whose event was already set (discarded by a
\* queue drain, or aborted by a disconnect before the reconnection).
C15_AtMostOnce ==
  /\ \A a, b \in 1..Len(execLog) : a # b => execLog[a] # execLog[b]
  /\ (pc = "exec") => doneCount[cur] = 0
  /\ \A j \in Jobs : jstate[j] = "discarded" => j \notin Range(execLog)
  /\ \A j \in Range(q) : j \notin Range(execLog) /\ doneCount[j] = 0

C15_Witness ==
  /\ pc = "exec"
  /\ cam = 2
  /\ \E j \in Jobs : jstate[j] = "aborted"
  /\ \E j \in Jobs : jstate[j] = "discarded"

\* C16: when stop() is never requested, a job submitted while the loop is
\* in the main loop of a handle is executed on that handle and on no other,
\* or is discarded because that handle was lost to a disconnect; the
\* discard of an earlier disconnect does not touch it.
C16_SubmittedAfterReconnect ==
  /\ []((pc \in {"exec", "hung", "set_io", "finally"}) =>
          liveAt[cur] \in {NoCam, cam})
  /\ [](\A j \in Jobs :
          (jstate[j] = "discarded" /\ liveAt[j] # NoCam) =>
             \/ disc[liveAt[j]] >= 1
             \/ (cam = liveAt[j] /\ cause \in {"job", "preview"}))
  /\ \A j \in Jobs :
       (liveAt[j] # NoCam /\ jstate[j] = "queued") ~>
          (jstate[j] \in {"running", "ran", "aborted"} \/ pc = "hung"
             \/ (cam = liveAt[j] /\ cause \in {"job", "preview"}))

C16_Witness ==
  /\ cam = 2
  /\ pc = "finally"
  /\ liveAt[cur] = 2
  /\ jstate[cur] = "ran"
  /\ \E j \in Jobs : jstate[j] = "discarded" /\ liveAt[j] = 1

\* C12: the preview capture and the loop's event poll never overlap a job:
\* each is started only after the drain of the same iteration saw the queue
\* empty, with no job popped or running since that observation.
C12_PollOnlyAfterEmptyDrain ==
  /\ []((pc \in {"preview", "event"}) =>
          /\ sawEmpty
          /\ cur = 0
          /\ \A j \in Jobs : jstate[j] # "running")
  /\ [][(pc # "preview" /\ pc' = "preview") => (pc = "drain" /\ q = <<>>)]_vars
  /\ [][(pc # "event" /\ pc' = "event") => pc = "preview"]_vars

C12_Witness ==
  /\ pc = "event"
  /\ sawEmpty
  /\ Len(execLog) >= 2
  /\ q # <<>>

\* C17: a capture job writes eosremoterelease with Press Half, Press Full,
\* Release Full, Release Half in that order, once each, sleeps the debounce
\* delay after every write, and waits for an event only after the sleep
\* that follows the fourth write.
C17_ReleaseSequence ==
  LET script == <<"Press Half", "sleep", "Press Full", "sleep",
                  "Release Full", "sleep", "Release Half", "sleep">>
  IN /\ Len(capLog) <= Len(script)
     /\ capLog = SubSeq(script, 1, Len(capLog))
     /\ (capPc \in {"deadline", "test", "wait", "fetch", "on_file", "restore"}) =>
           capLog = script
     /\ (pc = "exec" /\ capPc \in {"idle", "write", "deadline"}) =>
           capT = Debounce * capI

C17_Witness ==
  /\ pc = "exec"
  /\ capPc = "wait"
  /\ Len(capLog) = 8
  /\ capLog[7] = "Release Half"

\* C18: a capture job consumes only the first FILE_ADDED event: on_file is
\* called at most once, once in a job that returns normally and not at all
\* in one that times out; an event of another type only continues the
\* polling; after on_file the job polls no more and returns.
C18_FirstFileOnly ==
  /\ [](capFiles <= 1)
  /\ [](capFiles = 1 => capPc \in {"restore", "idle"})
  /\ [](capOut = "ok" => capFiles = 1)
  /\ [](capOut = "timeout" => capFiles = 0)
  /\ [][(capPc = "wait" /\ capPc' = "test") =>
          (capFiles' = 0 /\ pc' = "exec" /\ capOut' = "none")]_vars
  /\ [][(capPc = "fetch" /\ capPc' # "fetch") =>
          (capPc' = "on_file" \/ capOut' \in {"error", "io"})]_vars
  /\ [][(capPc = "on_file" /\ capPc' # "on_file") =>
          (capFiles' = 1 /\ capPc' = "restore")]_vars
  /\ [][(capPc = "restore" /\ capPc' # "restore") =>
          (capPc' = "idle" /\ pc' # "exec" /\ capOut' \in {"ok", "error", "io"})]_vars

C18_Witness ==
  /\ pc = "finally"
  /\ capOut = "ok"
  /\ capOther
  /\ capFiles = 1

\* C19 (as claimed): no event poll is started once the capture deadline
\* (8 s) has elapsed since the job began executing.
C19_DeadlineFromJobStart ==
  (pc = "exec" /\ capPc = "wait") => capT < CaptureDeadline

\* C19 (amended): the deadline is fixed once, 8 s after the end of the
\* release sequence, and no poll moves it: no poll is started at or after
\* it, and the timeout is raised only at or after it, less than one poll
\* timeout late.
C19_DeadlineFromSequenceEnd ==
  /\ (pc = "exec" /\ capPc \in {"test", "wait"}) =>
        capDeadline = CapSeqEnd + CaptureDeadline
  /\ (pc = "exec" /\ capPc = "wait") => capT < CapSeqEnd + CaptureDeadline
  /\ (capOut = "timeout") =>
        /\ capT >= CapSeqEnd + CaptureDeadline
        /\ capT < CapSeqEnd + CaptureDeadline + PollTimeout

C19_Witness ==
  /\ pc = "exec"
  /\ capPc = "wait"
  /\ capT >= CaptureDeadline
  /\ capOther

\* C20: a capture job whose deadline elapses without FILE_ADDED ends with
\* an error that is reported once through the status callback; its event is
\* set once, no disconnect is declared, the handle is kept, the job is not
\* run again, and the drain goes on with the next queued job.
C20_TimeoutIsJobFailure ==
  /\ []((pc = "finally" /\ capOut = "timeout") =>
          /\ reported = 1
          /\ ~brk
          /\ capFiles = 0
          /\ doneCount[cur] = 0)
  /\ [][(capOut # "timeout" /\ capOut' = "timeout") =>
          (pc' = "finally" /\ capT >= capDeadline)]_vars
  /\ [][(pc = "finally" /\ capOut = "timeout" /\ pc' # pc) =>
          /\ pc' = "drain"
          /\ doneCount'[cur] = 1
          /\ cam' = cam /\ cam_ref' = cam_ref
          /\ hstate' = hstate /\ disc' = disc
          /\ q' = q /\ execLog' = execLog]_vars
  /\ [](\A j \in capTimedOut :
          /\ j \notin Range(q)
          /\ Cardinality({i \in 1..Len(execLog) : execLog[i] = j}) = 1
          /\ (j # cur => doneCount[j] = 1))
  /\ [][(/\ pc = "drain" /\ pc' # pc /\ q # <<>>
         /\ Len(execLog) > 0 /\ execLog[Len(execLog)] \in capTimedOut) =>
          (pc' = "exec" /\ cur' = Head(q) /\ cam' = cam)]_vars

C20_Witness ==
  /\ pc = "exec"
  /\ Len(execLog) = 2
  /\ execLog[1] \in capTimedOut
  /\ doneCount[execLog[1]] = 1
  /\ cam = 1
  /\ disc[1] = 0

\* C22: the frame, status, file-received and disconnected callbacks are
\* invoked by steps of the loop thread only: a step of run() or of stop()
\* invokes none of them.
C22_CallbacksOnLoopThread ==
  /\ [][(nextJob' # nextJob \/ stopVars' # stopVars \/ running' # running) =>
          (cb' = cb /\ disc' = disc /\ reported' = reported
             /\ capFiles' = capFiles /\ pc' = pc)]_vars
  /\ [][(cb' # cb \/ disc' # disc \/ reported' # reported) => pc' # pc]_vars

C22_Witness ==
  /\ cb = "disconnect"
  /\ stopPc = "join"
  /\ nextJob > 1

\* C23: a disconnect-class error raised by the event step (the poll or the
\* fetch) makes the loop leave the main loop for the cleanup at once: its
\* next step starts no further drain, preview or event poll on the handle.
C23_EventDisconnectAbandons ==
  [][(pc = "main" /\ evt \in {"io", "file_io"} /\ pc' # pc) =>
       pc' = "cleanup"]_vars

\* C24: once a job or the preview capture has raised a disconnect-class
\* error on the loop's handle, the loop runs no job on it and attempts no
\* preview and no event poll on it: it only goes through the cleanup, whose
\* one call on the handle is exit().
C24_OnlyExitAfterFault ==
  /\ []((cam \in faulted) =>
          pc \notin {"main", "drain", "exec", "hung", "preview", "event"})
  /\ [][(cam \in faulted /\ cam' = cam) => execLog' = execLog]_vars

C24_Witness ==
  /\ cam \in faulted
  /\ pc = "reconn_exit"
  /\ q # <<>>
  /\ Len(execLog) >= 1

\* C25: when stop() is never requested, a break to reconnect performs in
\* this order: the discard of the queued jobs (signalled, never executed),
\* the on_disconnect notification, the exit() of the old handle, the pause,
\* and then the next acquisition attempt; no handle is opened while a
\* handle declared disconnected is still unreleased.
C25_ReconnectOrder ==
  /\ []((pc \in {"clear_ref", "notify"}) =>
          /\ disc[cam] = 0 /\ hstate[cam] = "open" /\ exits[cam] = 0
          /\ \A j \in atFault :
                jstate[j] = "discarded" /\ doneCount[j] >= 1 /\ j \notin Range(execLog))
  /\ []((pc = "reconn_exit") =>
          (disc[cam] = 1 /\ hstate[cam] = "open" /\ exits[cam] = 0))
  /\ []((pc = "reconn_sleep") =>
          (disc[cam] = 1 /\ hstate[cam] = "released" /\ exits[cam] = 1))
  /\ [][(pc # "outer" /\ pc' = "outer") => pc = "reconn_sleep"]_vars
  /\ [][(\E h \in Handles : hstate[h] = "none" /\ hstate'[h] = "open") =>
          (/\ pc = "init"
           /\ \A h \in Handles : disc[h] >= 1 => hstate[h] = "released")]_vars

C25_Witness ==
  /\ pc = "baseline"
  /\ cam = 2
  /\ hstate[1] = "released" /\ disc[1] = 1
  /\ \E j \in Jobs : jstate[j] = "discarded"

\* C26: a job that raises an error that is not disconnect-class has the
\* error reported once through the status callback and its event set once;
\* the loop takes no break, keeps its handle, declares no disconnect and
\* goes on draining with the next queued job.
C26_TransientJobError ==
  /\ []((pc = "finally" /\ raised = "transient") =>
          (reported = 1 /\ ~brk /\ doneCount[cur] = 0))
  /\ [][(raised # "transient" /\ raised' = "transient") =>
          (/\ pc' = "finally" /\ cb' = "status"
           /\ cam' = cam /\ disc' = disc /\ hstate' = hstate)]_vars
  /\ [][(pc = "finally" /\ raised = "transient" /\ pc' # pc) =>
          /\ pc' = "drain"
          /\ doneCount'[cur] = 1
          /\ cam' = cam /\ cam_ref' = cam_ref
          /\ hstate' = hstate /\ disc' = disc
          /\ q' = q /\ execLog' = execLog]_vars
  /\ [][(pc = "drain" /\ pc' # pc /\ q # <<>>) =>
          (pc' = "exec" /\ cur' = Head(q) /\ cam' = cam)]_vars

C26_Witness ==
  /\ pc = "finally"
  /\ raised = "transient"
  /\ cb = "status"
  /\ q # <<>>
  /\ Len(execLog) >= 2

C28_IterationOrder ==
  /\ [][(pc = "main" /\ pc' # pc) =>
          pc' = IF running THEN "drain" ELSE "cleanup"]_vars
  /\ [][(pc = "drain" /\ pc' # pc) =>
          pc' = IF q = <<>> THEN "preview" ELSE "exec"]_vars
  /\ [][(pc # "preview" /\ pc' = "preview") => (pc = "drain" /\ q = <<>>)]_vars
  /\ [][(pc = "preview" /\ pc' # pc) =>
          \/ pc' = "event"
          \/ (pc' = "cleanup" /\ cam \in faulted' /\ cause' = "preview")]_vars
  /\ [][(pc # "event" /\ pc' = "event") => pc = "preview"]_vars
  /\ [][(pc = "event" /\ pc' # pc) => pc' = "main"]_vars

C28_Witness ==
  /\ pc = "event"
  /\ cb = "none"
  /\ Len(execLog) >= 2
  /\ running

\* C29: in a capture job that receives FILE_ADDED the file is fetched, then
\* handed to on_file, then the viewfinder control is written; the job
\* returns normally only from that write, its event is not set before the
\* job has left, and no preview capture or event poll of the loop happens
\* between the fetch and the restore.
C29_FetchDeliverRestore ==
  /\ []((capPc \in {"fetch", "on_file", "restore"}) =>
          (pc = "exec" /\ doneCount[cur] = 0))
  /\ []((capPc \in {"fetch", "on_file"}) => capFiles = 0)
  /\ []((capPc = "restore") => capFiles = 1)
  /\ [][(capPc # "on_file" /\ capPc' = "on_file") => capPc = "fetch"]_vars
  /\ [][(capPc # "restore" /\ capPc' = "restore") =>
          (capPc = "on_file" /\ cb' = "file")]_vars
  /\ [][(capOut # "ok" /\ capOut' = "ok") =>
          (capPc = "restore" /\ pc' = "finally" /\ doneCount'[cur] = 0)]_vars
  /\ []((pc \in {"preview", "event"}) => (capPc = "idle" /\ capFiles = 0))

C29_Witness ==
  /\ pc = "finally"
  /\ capOut = "ok"
  /\ capFiles = 1
  /\ doneCount[cur] = 0
  /\ q # <<>>

\* C30: in the loop's event step FILE_ADDED leads to the fetch of the file
\* and one on_file call; an event of another type, a poll timeout or an
\* error invokes no callback; the step writes no control and changes no
\* state of the loop, of the queue or of the handle.
C30_EventStep ==
  /\ [][(pc = "event" /\ pc' # pc) =>
          /\ pc' = "main"
          /\ evt' # "none"
          /\ cb' = IF evt' = "file" THEN "file" ELSE "none"
          /\ UNCHANGED <<cam, cam_ref, running, cur, brk, cause, jobVars,
                         hstate, exits, disc, reported, faulted>>]_vars
  /\ [](evt # "none" => pc = "main")

C30_Witness ==
  /\ pc = "main"
  /\ evt = "file"
  /\ cb = "file"
  /\ q # <<>>

\* the autofocusdrive writes made by job j, in order
AfWritesOf(j) ==
  LET OfJob(e) == e[1] = j IN SelectSeq(afLog, OfJob)

\* C21: every autofocus job that returns without error has written
\* autofocusdrive to 0 and then to 1, with no other write between them and
\* none left out; when every job that wrote returned without error the
\* writes read 0,1,0,1,...
C21_AfOffThenOn ==
  /\ \A j \in afOk : AfWritesOf(j) = << <<j, 0>>, <<j, 1>> >>
  /\ \A j \in Jobs : AfWritesOf(j) \in {<<>>, << <<j, 0>> >>, << <<j, 0>>, <<j, 1>> >>}
  /\ \A i \in 1..Len(afLog) :
        (afLog[i][1] \in afOk /\ afLog[i][2] = 0) =>
           (i < Len(afLog) /\ afLog[i + 1] = <<afLog[i][1], 1>>)
  /\ (\A i \in 1..Len(afLog) : afLog[i][1] \in afOk) =>
        \A i \in 1..Len(afLog) : afLog[i][2] = (i + 1) % 2

C21_Witness ==
  /\ Len(afLog) = 4
  /\ Cardinality(afOk) = 2
  /\ unplugs = 0

\* C34: the loop thread reports "Connecting..." as persistent at the start
\* of every acquisition attempt and "No camera -- waiting..." as persistent
\* after every failed one; "Ready" after a successful attempt and the error
\* of a job are reported as not persistent; it makes no other status call.
C34_PersistentVsTransient ==
  /\ [](cb = "status" <=> st # NoStatus)
  /\ [](st \in {NoStatus, StConnecting, StNoCamera, StReady, StJobError})
  /\ [][(pc = "connect" /\ pc' # pc) =>
          (st' = [msg |-> "Connecting...", persist |-> TRUE])]_vars
  /\ [][(pc = "acq_fail" /\ pc' # pc) =>
          (st' = [msg |-> "No camera -- waiting...", persist |-> TRUE])]_vars
  /\ [][(pc = "set_ref" /\ pc' # pc) =>
          (st' = [msg |-> "Ready", persist |-> FALSE] /\ cam_ref' = cam)]_vars
  /\ [][(raised # "transient" /\ raised' = "transient") =>
          (st' = [msg |-> "error", persist |-> FALSE])]_vars
  /\ [][(st' # NoStatus /\ st'.persist /\ pc' # pc) =>
          pc \in {"connect", "acq_fail"}]_vars

C34_Witness ==
  /\ st = StReady
  /\ ~st.persist
  /\ pc = "post_acq"
  /\ unplugs >= 1
  /\ \E j \in Jobs : jstate[j] = "discarded"

\* C31: a preview capture that fails with an error that is not
\* disconnect-class sends no status message and no on_disconnect, keeps the
\* handle and goes on to the event check; the step keeps no count of
\* failures, and the main loop is left for the cleanup only after a
\* disconnect-class error on the handle or a shutdown request.
C31_TransientPreviewTolerated ==
  /\ [][(pc = "preview" /\ pc' = "event" /\ cb' # "frame") =>
          /\ cb' = "none" /\ st' = NoStatus
          /\ UNCHANGED <<cam, cam_ref, hstate, exits, disc, reported, faulted,
                         cause, running, brk, jobVars>>]_vars
  /\ [][(pc = "preview" /\ pc' # pc /\ cam \notin faulted') => pc' = "event"]_vars
  /\ [][(pc \in MainPcs /\ pc' = "cleanup") => (cam \in faulted' \/ ~running)]_vars
  /\ [][disc' # disc => (cam \in faulted /\ disc'[cam] = disc[cam] + 1)]_vars

C31_Witness ==
  /\ pc = "event"
  /\ cb = "none"
  /\ connectable
  /\ cam_ref = cam /\ hstate[cam] = "open" /\ disc[cam] = 0
  /\ cam \notin faulted
  /\ Len(execLog) >= 1

\* C32: _connect stores the handle in _cam_ref, reports "Ready" and
\* returns it only after init() and both baseline writes succeeded on it;
\* every job, preview capture and event poll is made on a handle on which
\* both baseline controls were applied.
C32_BaselineBeforeUse ==
  /\ []((pc \in MainPcs) => (cam # NoCam /\ hstate[cam] # "none" /\ base[cam] = 2))
  /\ [](cam_ref # NoCam => base[cam_ref] = 2)
  /\ [][(cam_ref' # cam_ref /\ cam_ref' # NoCam) =>
          /\ pc = "set_ref" /\ cam_ref' = cam
          /\ hstate[cam] = "open" /\ base[cam] = 2
          /\ st' = [msg |-> "Ready", persist |-> FALSE]]_vars
  /\ [][(st' = StReady /\ pc' # pc) => (pc = "set_ref" /\ base[cam] = 2)]_vars
  /\ [][(pc \in {"exec", "preview", "event"} /\ pc' # pc) => base[cam] = 2]_vars
  /\ [][(pc \in AcqPcs /\ pc' \in MainPcs \cup {"post_acq"} /\ running) =>
          base[cam'] = 2]_vars

C32_Witness ==
  /\ pc = "exec"
  /\ cam = 2 /\ cam_ref = 2
  /\ base[2] = 2
  /\ base[1] = 0 /\ hstate[1] = "open"

\* C33: after a failed acquisition attempt the handle it opened has been
\* released: while an attempt has a handle open, that handle is the only
\* open one.
C33_PartialHandleReleased ==
  (pc \in {"baseline", "viewfinder", "set_ref"}) => OpenNow = {cam}

\* C36 (as claimed): a job submitted while the loop is handling a failed
\* acquisition attempt (the attempt in progress at its submission has
\* failed) is never executed.
C36_FailedAttemptDoomsJob ==
  [][(pc = "drain" /\ pc' = "exec") => cur' \notin failSub]_vars

\* C36 (amended): the handling of a failed attempt ends only once the queue
\* was seen empty; each job it takes out is signalled once without being
\* executed, and is never executed later; when the backoff sleep begins
\* every job submitted before is signalled, and the only jobs queued during
\* the sleep are those submitted after the discard.
C36_FailedAttemptDiscardsQueue ==
  /\ [][(pc = "acq_fail" /\ pc' # pc) => (q = <<>> /\ pc' = "backoff")]_vars
  /\ [][(pc = "acq_fail" /\ doneCount' # doneCount) =>
          /\ q # <<>> /\ q' = Tail(q)
          /\ jstate'[Head(q)] = "discarded"
          /\ doneCount[Head(q)] = 0 /\ doneCount'[Head(q)] = 1
          /\ Head(q) \notin Range(execLog)
          /\ execLog' = execLog]_vars
  /\ [][(pc = "acq_fail" /\ pc' = "backoff") =>
          \A j \in Jobs : j < nextJob => doneCount[j] >= 1]_vars
  /\ []((pc = "backoff") => Range(q) \subseteq failSub)
  /\ [][\A j \in Jobs : jstate[j] = "discarded" =>
          (jstate'[j] = "discarded" /\ j \notin Range(execLog'))]_vars

C36_Witness ==
  /\ pc = "drain"
  /\ q # <<>>
  /\ Head(q) \in failSub
  /\ \E j \in Jobs : jstate[j] = "discarded" /\ liveAt[j] = NoCam

\* C35: the jobs queued when a disconnect-class error is detected are all
\* signalled as discarded, unexecuted, by the cleanup; a discarded or
\* aborted job is never executed afterwards; a job submitted to the main
\* loop of a handle is never executed on another handle, and when the loop
\* turns to the next acquisition every job submitted to the old handle has
\* been signalled.
C35_NoJobAcrossReconnect ==
  /\ []((cause \in {"job", "preview"} /\ pc \in AfterCleanupPcs) =>
          \A j \in atFault :
            jstate[j] = "discarded" /\ doneCount[j] >= 1 /\ j \notin Range(execLog))
  /\ [][\A j \in Jobs : jstate[j] \in {"discarded", "aborted"} =>
          /\ jstate'[j] = jstate[j]
          /\ j \notin Range(q')
          /\ (execLog' # execLog => execLog'[Len(execLog')] # j)]_vars
  /\ []((pc \in {"exec", "hung", "set_io", "finally"}) => liveAt[cur] \in {NoCam, cam})
  /\ [][(pc = "reconn_sleep" /\ pc' # pc) =>
          \A j \in Jobs : liveAt[j] = cam => (doneCount[j] >= 1 /\ j \notin Range(q))]_vars

C35_Witness ==
  /\ pc = "exec"
  /\ cam = 2
  /\ liveAt[cur] = NoCam
  /\ disc[1] = 1
  /\ \E j \in Jobs : jstate[j] = "discarded" /\ liveAt[j] = 1 /\ doneCount[j] = 1

\* C37: once stop() has called exit() on the loop's handle, the loop
\* invokes no job, no preview capture and no event poll on that handle.
C37_NoUseAfterStopRelease ==
  [][(pc \in {"exec", "preview", "event"} /\ pc' # pc) =>
       ~(stopCalls > 0 /\ hstate[cam] = "released")]_vars

\* C38: exit() is never invoked twice on the same handle.
C38_ReleasedAtMostOnce ==
  \A h \in Handles : exits[h] <= 1

\* C39: on_disconnect is invoked at most once per handle, only by the
\* cleanup's reconnect path and only for a handle on which a job or the
\* preview raised a disconnect-class error while stop() had not been
\* requested; once the loop has gone on to reconnect, every such handle was
\* notified once. A main loop left because of stop() drains the queue,
\* calls exit() and returns: no notification, no further acquisition.
C39_DisconnectNotifiedOnce ==
  /\ [](\A h \in Handles : disc[h] <= 1 /\ (disc[h] = 1 => h \in faulted))
  /\ [](\A h \in faulted :
          (h # cam \/ pc \in {"reconn_exit", "reconn_sleep", "outer"}) => disc[h] = 1)
  /\ [][disc' # disc =>
          /\ pc = "notify" /\ cam \in faulted
          /\ disc' = [disc EXCEPT ![cam] = 1]
          /\ cb' = "disconnect"]_vars
  /\ [][(pc = "cleanup_check" /\ pc' # pc) =>
          pc' = IF running THEN "clear_ref" ELSE "quit_exit"]_vars
  /\ [][(pc = "cleanup_check" /\ pc' = "clear_ref") =>
          (stopCalls = 0 /\ hstate[cam] = "open" /\ cause \in {"job", "preview"})]_vars
  /\ [](cause = "stop" =>
          /\ ~running
          /\ pc \in {"cleanup", "cleanup_check", "quit_exit", "terminated"}
          /\ disc[cam] = 0)
  /\ [][(pc = "quit_exit" /\ pc' # pc) =>
          /\ pc' = "terminated"
          /\ disc' = disc /\ cb' = "none"
          /\ exits'[cam] = exits[cam] + 1]_vars
  /\ [][pc = "terminated" =>
          (pc' = "terminated" /\ disc' = disc /\ Opened' = Opened)]_vars

C39_Witness ==
  /\ pc = "terminated"
  /\ cause = "stop"
  /\ cam = 2
  /\ disc[1] = 1 /\ 1 \in faulted
  /\ disc[2] = 0 /\ exits[2] >= 1

\* every toggle's thread has submitted its job and every job submitted has
\* run to a normal return, with no disconnect so far
FlashSettled ==
  /\ flashThr[1] # "none"
  /\ \A n \in 1..MaxToggles : flashThr[n] \in {"none", "put"}
  /\ \A j \in Jobs : j < nextJob => (j \in flashOk /\ doneCount[j] = 1)
  /\ unplugs = 0 /\ faulted = {}

\* C40: after any sequence of flash toggles, once every toggle's job has
\* run (no disconnect, no shutdown), the last exposure mode written to the
\* device is the one of the final value of flash_on.
C40_DeviceMatchesUI ==
  FlashSettled => flashDev = ModeOf(flash_on)

====
